---- MODULE Spec2Model ----
(***************************************************************************)
(* Model of the client-side catalog engine that generate_index.py emits:   *)
(* the configuration store (localStorage key engineConfigV1), the pricing  *)
(* pipeline (activeBuckets, resolveRule, finalPriceFor, roundPrice) and    *)
(* the handlers that read or write the store (boot, remote configuration   *)
(* fetch, query change, collection change, save, reset).                   *)
(*                                                                         *)
(* JavaScript values are tagged records: the field ty carries the type,    *)
(* numbers carry n, strings s, objects o (a function from keys to values)  *)
(* and arrays a (a sequence of values).  Numbers read from a configuration *)
(* or the catalog are whole; a number produced by price arithmetic is a    *)
(* fixed-point count of hundredths (Fix), which is exact for whole bases,  *)
(* whole percentages and whole flat amounts.                               *)
(***************************************************************************)
EXTENDS Integers, Sequences, FiniteSets, TLC

(***************************************************************************)
(* JavaScript values                                                       *)
(***************************************************************************)
Num(n) == [ty |-> "number", n |-> n]
Str(s) == [ty |-> "string", s |-> s]
Obj(f) == [ty |-> "object", o |-> f]
Arr(q) == [ty |-> "array", a |-> q]
Infinity == [ty |-> "Infinity"]
NaN == [ty |-> "NaN"]
null == [ty |-> "null"]
undefined == [ty |-> "undefined"]

\* the empty object literal {}
EmptyObj == Obj([k \in {} |-> null])

\* v == null in JavaScript: true of null and of undefined
IsNullish(v) == v.ty \in {"null", "undefined"}

\* typeof v === 'object' for a non-null value: objects and arrays
IsObjectLike(v) == v.ty \in {"object", "array"}

\* truthiness of a value used as a condition
Truthy(v) ==
  CASE v.ty = "number" -> v.n # 0
    [] v.ty = "string" -> v.s # ""
    [] v.ty \in {"null", "undefined", "NaN"} -> FALSE
    [] OTHER -> TRUE

\* property read o[k]; a missing key, or a key read on a non-object, is undefined
Get(v, k) ==
  IF v.ty = "object" /\ k \in DOMAIN v.o THEN v.o[k] ELSE undefined

\* array read arr[i], i counted from 0; past the end is undefined
At(v, i) ==
  IF v.ty = "array" /\ i + 1 <= Len(v.a) THEN v.a[i + 1] ELSE undefined

\* Number(v) over the values a configuration document carries; the only
\* strings in those documents are "", "Infinity" and non-numeric text
Number(v) ==
  CASE v.ty = "number" -> v
    [] v.ty = "Infinity" -> Infinity
    [] v.ty = "null" -> Num(0)
    [] v.ty = "string" -> IF v.s = "" THEN Num(0)
                          ELSE IF v.s = "Infinity" THEN Infinity ELSE NaN
    [] OTHER -> NaN

\* String(v) for the values used as bucket labels
String(v) ==
  CASE v.ty = "string" -> v.s
    [] v.ty = "number" -> ToString(v.n)
    [] OTHER -> v.ty

\* a <= b on JavaScript numbers: every comparison with NaN is false
JsLe(x, y) ==
  CASE x.ty = "NaN" \/ y.ty = "NaN" -> FALSE
    [] y.ty = "Infinity" -> TRUE
    [] x.ty = "Infinity" -> FALSE
    [] OTHER -> x.n <= y.n

\* whole number n as a fixed-point count of hundredths
Fix(n) == n * 100

(***************************************************************************)
(* JSON.stringify followed by JSON.parse: what a value becomes once it has *)
(* been written to the store.  Infinity and NaN are written as null, an    *)
(* undefined array element as null, an undefined property is dropped.      *)
(***************************************************************************)
RECURSIVE JSONstringify(_)
JSONstringify(v) ==
  CASE v.ty = "object" ->
         Obj([k \in {j \in DOMAIN v.o : v.o[j].ty # "undefined"} |->
                JSONstringify(v.o[k])])
    [] v.ty = "array" ->
         Arr([i \in 1..Len(v.a) |->
                IF v.a[i].ty = "undefined" THEN null ELSE JSONstringify(v.a[i])])
    [] v.ty \in {"Infinity", "NaN"} -> null
    [] OTHER -> v

(***************************************************************************)
(* Compiled-in defaults                                                    *)
(***************************************************************************)
DefaultLabels == {"1-100", "101-220", "221-300", "301-469", "470+"}

DEFAULT_RULES ==
  Obj([l \in DefaultLabels |->
         CASE l = "1-100" -> Num(30)
           [] l = "101-220" -> Num(20)
           [] l = "221-300" -> Num(15)
           [] l = "301-469" -> Num(13)
           [] l = "470+" -> Num(10)])

DEFAULT_BUCKETS ==
  Arr(<< Arr(<<Str("1-100"), Num(1), Num(100)>>),
         Arr(<<Str("101-220"), Num(101), Num(220)>>),
         Arr(<<Str("221-300"), Num(221), Num(300)>>),
         Arr(<<Str("301-469"), Num(301), Num(469)>>),
         Arr(<<Str("470+"), Num(470), Infinity>>) >>)

DefaultConfig ==
  Obj([k \in {"defaults", "perSheet", "buckets"} |->
         CASE k = "defaults" -> DEFAULT_RULES
           [] k = "perSheet" -> EmptyObj
           [] k = "buckets" -> DEFAULT_BUCKETS])

(***************************************************************************)
(* Configuration store                                                     *)
(***************************************************************************)
\* localStorage.getItem returns null when the key was never written
NoItem == null

\* a ?? b
Coalesce(v, d) == IF IsNullish(v) THEN d ELSE v

\* a stored text that JSON.parse rejects, and the empty text
Text(s) == [ty |-> "text", s |-> s]

\* getEngineConfig() over the stored item raw: raw is NoItem, a Text, or the
\* value that JSON.parse yields.  A Text and JSON null end in the catch
\* branch (or at !raw); on a parsed number or string the three assignments
\* have no effect and the value itself is returned; a parsed array gets the
\* three properties and no others are read from it
getEngineConfig(raw) ==
  IF raw.ty \in {"number", "string"} THEN raw
  ELSE IF raw.ty # "object" THEN DefaultConfig
  ELSE Obj([k \in DOMAIN raw.o \cup {"defaults", "perSheet", "buckets"} |->
              CASE k = "defaults" -> Coalesce(Get(raw, k), DEFAULT_RULES)
                [] k = "perSheet" -> Coalesce(Get(raw, k), EmptyObj)
                [] k = "buckets" -> Coalesce(Get(raw, k), DEFAULT_BUCKETS)
                [] OTHER -> raw.o[k]])

\* setEngineConfig(cfg): the item the store holds afterwards
setEngineConfig(cfg) == JSONstringify(cfg)

\* asRuleObj(v)
asRuleObj(v) ==
  IF IsNullish(v) THEN [pct |-> null, flat |-> null]
  ELSE IF v.ty \in {"number", "NaN", "Infinity"} THEN [pct |-> v, flat |-> null]
  ELSE IF IsObjectLike(v) THEN
    LET vp == Get(v, "pct")
        vf == Get(v, "flat")
    IN [pct |-> IF vp = Str("") \/ IsNullish(vp) THEN null ELSE Number(vp),
        flat |-> IF vf = Str("") \/ IsNullish(vf) THEN null ELSE Number(vf)]
  ELSE [pct |-> null, flat |-> null]

(***************************************************************************)
(* Rounding rule                                                           *)
(***************************************************************************)
\* Math.round(x / 10) * 10 on a fixed-point x: halves round up
RoundToTen(x) == ((2 * x + Fix(10)) \div (2 * Fix(10))) * Fix(10)

\* roundPrice with the 10/90 adjustment applied at every height, not only
\* above 340
roundPrice_noThreshold(x) ==
  LET p == RoundToTen(x)
      last == ((p % Fix(100)) + Fix(100)) % Fix(100)
  IN IF last = Fix(10) THEN p - Fix(10)
     ELSE IF last = Fix(90) THEN p + Fix(10)
     ELSE p

\* roundPrice with the 10/90 adjustment made on the argument, before the
\* rounding to 10 instead of after it
roundPrice_adjustFirst(x) ==
  LET last == ((x % Fix(100)) + Fix(100)) % Fix(100)
      q == IF x > Fix(340)
           THEN IF last = Fix(10) THEN x - Fix(10)
                ELSE IF last = Fix(90) THEN x + Fix(10)
                ELSE x
           ELSE x
  IN RoundToTen(q)

\* roundPrice(n) for a finite n, fixed-point in and out
roundPrice(x) ==
  LET p == RoundToTen(x)
      last == ((p % Fix(100)) + Fix(100)) % Fix(100)
  IN IF p > Fix(340)
     THEN IF last = Fix(10) THEN p - Fix(10)
          ELSE IF last = Fix(90) THEN p + Fix(10)
          ELSE p
     ELSE p

(***************************************************************************)
(* Buckets and rules                                                       *)
(***************************************************************************)
\* activeBuckets(): the sequence of {label, lo, hi} read from the store
activeBuckets(raw) ==
  LET cfg == getEngineConfig(raw)
      b == IF Get(cfg, "buckets").ty = "array" THEN Get(cfg, "buckets")
           ELSE DEFAULT_BUCKETS
  IN [i \in 1..Len(b.a) |->
        [label |-> String(At(b.a[i], 0)),
         lo |-> Number(At(b.a[i], 1)),
         hi |-> IF At(b.a[i], 2) = Infinity THEN Infinity
                ELSE Number(At(b.a[i], 2))]]

\* what a direct call leaves in res when it ends in an uncaught TypeError: a
\* pair, where a returned value is a 1-tuple
TypeError == <<"TypeError", "uncaught">>

\* activeBuckets() throws: arr[0] in the map callback reads a property of
\* null when an entry of the bucket list is null
activeBucketsThrows(raw) ==
  LET cfg == getEngineConfig(raw)
      b == IF Get(cfg, "buckets").ty = "array" THEN Get(cfg, "buckets")
           ELSE DEFAULT_BUCKETS
  IN \E i \in 1..Len(b.a) : IsNullish(b.a[i])

\* resolveRule that takes the per-sheet rule as a unit as soon as one of its
\* fields is set
resolveRule_unit(raw, label, sheetName) ==
  LET cfg == getEngineConfig(raw)
      perSheet == Get(cfg, "perSheet")
      page == IF Truthy(perSheet) /\ Truthy(Get(perSheet, sheetName))
              THEN Get(perSheet, sheetName) ELSE EmptyObj
      rulePage == asRuleObj(Get(page, label))
      ruleDef == asRuleObj(IF Truthy(Get(cfg, "defaults"))
                           THEN Get(Get(cfg, "defaults"), label) ELSE null)
  IN IF /\ IsNullish(rulePage.pct) /\ IsNullish(rulePage.flat)
        /\ IsNullish(ruleDef.pct) /\ IsNullish(ruleDef.flat)
     THEN [pct |-> IF Get(DEFAULT_RULES, label) # undefined
                   THEN Number(Get(DEFAULT_RULES, label)) ELSE Num(0),
           flat |-> null]
     ELSE IF ~IsNullish(rulePage.pct) \/ ~IsNullish(rulePage.flat) THEN rulePage
     ELSE ruleDef

\* resolveRule without the fallback to the compiled-in percent table
resolveRule_noFallback(raw, label, sheetName) ==
  LET cfg == getEngineConfig(raw)
      perSheet == Get(cfg, "perSheet")
      page == IF Truthy(perSheet) /\ Truthy(Get(perSheet, sheetName))
              THEN Get(perSheet, sheetName) ELSE EmptyObj
      rulePage == asRuleObj(Get(page, label))
      ruleDef == asRuleObj(IF Truthy(Get(cfg, "defaults"))
                           THEN Get(Get(cfg, "defaults"), label) ELSE null)
  IN [pct |-> IF ~IsNullish(rulePage.pct) THEN rulePage.pct ELSE ruleDef.pct,
      flat |-> IF ~IsNullish(rulePage.flat) THEN rulePage.flat ELSE ruleDef.flat]

\* resolveRule(label, sheetName)
resolveRule(raw, label, sheetName) ==
  LET cfg == getEngineConfig(raw)
      perSheet == Get(cfg, "perSheet")
      page == IF Truthy(perSheet) /\ Truthy(Get(perSheet, sheetName))
              THEN Get(perSheet, sheetName) ELSE EmptyObj
      vPage == Get(page, label)
      vDef == IF Truthy(Get(cfg, "defaults"))
              THEN Get(Get(cfg, "defaults"), label) ELSE null
      rulePage == asRuleObj(vPage)
      ruleDef == asRuleObj(vDef)
  IN IF /\ IsNullish(rulePage.pct) /\ IsNullish(rulePage.flat)
        /\ IsNullish(ruleDef.pct) /\ IsNullish(ruleDef.flat)
     THEN [pct |-> IF Get(DEFAULT_RULES, label) # undefined
                   THEN Number(Get(DEFAULT_RULES, label)) ELSE Num(0),
           flat |-> null]
     ELSE [pct |-> IF ~IsNullish(rulePage.pct) THEN rulePage.pct ELSE ruleDef.pct,
           flat |-> IF ~IsNullish(rulePage.flat) THEN rulePage.flat ELSE ruleDef.flat]

\* Number(v || 0) for a rule field: null, 0 and NaN all count as 0
OrZero(v) == IF Truthy(v) THEN Number(v).n ELSE 0

\* applyDiscount without the clamp at 0
applyDiscount_noClamp(base, pct, flat) ==
  (Fix(base) * (100 - pct)) \div 100 - Fix(flat)

\* applyDiscount with the flat amount taken off before the percentage
applyDiscount_flatFirst(base, pct, flat) ==
  LET p == ((Fix(base) - Fix(flat)) * (100 - pct)) \div 100
  IN IF p < 0 THEN 0 ELSE p

\* p = base * (1 - pct/100); p = p - flat; if (p < 0) p = 0   (fixed-point)
applyDiscount(base, pct, flat) ==
  LET p == (Fix(base) * (100 - pct)) \div 100 - Fix(flat)
  IN IF p < 0 THEN 0 ELSE p

\* the bucket scan without the early return: the last bucket whose range
\* holds base
RECURSIVE firstBucket_last(_, _, _)
firstBucket_last(bucks, base, i) ==
  IF i > Len(bucks) THEN 0
  ELSE LET later == firstBucket_last(bucks, base, i + 1)
       IN IF later # 0 THEN later
          ELSE IF JsLe(bucks[i].lo, Num(base)) /\ JsLe(Num(base), bucks[i].hi)
               THEN i
          ELSE 0

\* the for-loop of finalPriceFor: index of the first bucket, from i on, whose
\* range holds base; 0 when the loop runs off the end
RECURSIVE firstBucket(_, _, _)
firstBucket(bucks, base, i) ==
  IF i > Len(bucks) THEN 0
  ELSE IF JsLe(bucks[i].lo, Num(base)) /\ JsLe(Num(base), bucks[i].hi) THEN i
  ELSE firstBucket(bucks, base, i + 1)

\* finalPriceFor(sheetName, base): the displayed price, fixed-point
finalPriceFor(raw, sheetName, base) ==
  LET bucks == activeBuckets(raw)
      i == firstBucket(bucks, base, 1)
  IN IF i # 0
     THEN LET rule == resolveRule(raw, bucks[i].label, sheetName)
          IN roundPrice(applyDiscount(base, OrZero(rule.pct), OrZero(rule.flat)))
     ELSE roundPrice(Fix(base))

(***************************************************************************)
(* Themes                                                                  *)
(***************************************************************************)
THEMES ==
  { "midnight-glass", "clean-pro", "ivory-gold-luxe", "carbon-neon",
    "deep-purple", "forest-emerald", "rose-quartz", "sunset-gold",
    "ocean-breeze", "matte-black", "slate-gray", "mocha", "arctic-ice",
    "neon-pop", "royal-indigo", "copper-sand", "aurora", "jade-mist",
    "obsidian", "paper-white" }

\* applyTheme(name): the name written to item uiThemeV1 and to data-theme
applyTheme(name) == IF name \in THEMES THEN name ELSE "midnight-glass"

\* loadTheme() on the stored item t, NoItem when nothing is stored
loadTheme(t) == applyTheme(IF t = NoItem THEN "midnight-glass" ELSE t)

(***************************************************************************)
(* Remote configuration loader                                             *)
(***************************************************************************)
\* sanitizeBuckets(buckets)
sanitizeBuckets(buckets) ==
  IF buckets.ty # "array" THEN buckets
  ELSE Arr([i \in 1..Len(buckets.a) |->
         LET arr == buckets.a[i]
             hi == IF arr.ty = "array" /\ Len(arr.a) > 2 THEN At(arr, 2)
                   ELSE undefined
         IN IF arr.ty # "array" THEN arr
            ELSE Arr(<< Str(String(At(arr, 0))),
                        Number(At(arr, 1)),
                        IF IsNullish(hi) \/ hi = Str("") THEN Str("Infinity")
                        ELSE hi >>)])

\* a || b
OrElse(v, d) == IF Truthy(v) THEN v ELSE d

\* mergeConfig(current, remote)
mergeConfig(current, remote) ==
  LET rd == Get(remote, "defaults")
      rp == Get(remote, "perSheet")
      rb == Get(remote, "buckets")
      isObj == IsObjectLike(remote)
  IN Obj([k \in {"defaults", "perSheet", "buckets"} |->
       CASE k = "defaults" ->
              IF isObj /\ Truthy(rd) /\ IsObjectLike(rd) THEN rd
              ELSE OrElse(Get(current, "defaults"), EmptyObj)
         [] k = "perSheet" ->
              IF isObj /\ Truthy(rp) /\ IsObjectLike(rp) THEN rp
              ELSE OrElse(Get(current, "perSheet"), EmptyObj)
         [] k = "buckets" ->
              IF isObj /\ rb.ty = "array" THEN sanitizeBuckets(rb)
              ELSE OrElse(Get(current, "buckets"), Arr(<<>>))])

\* the theme after mergeConfig(current, remote): remote.uiTheme, when truthy,
\* goes through applyTheme
mergeConfigTheme(cur, remote) ==
  LET t == Get(remote, "uiTheme")
  IN IF IsObjectLike(remote) /\ Truthy(t) THEN applyTheme(String(t)) ELSE cur

(***************************************************************************)
(* Catalog                                                                 *)
(***************************************************************************)
\* collection names, in insertion order
SheetOrder == <<"Phones", "Tablets">>
Sheets == {SheetOrder[i] : i \in 1..Len(SheetOrder)}

\* the collection names as text
SheetText ==
  [sh \in Sheets |->
     IF sh = "Phones" THEN <<"P","h","o","n","e","s">>
     ELSE <<"T","a","b","l","e","t","s">>]

\* one catalog row {device, display, price}; prices are whole
Row(device, display, price) ==
  [device |-> device, display |-> display, price |-> price]

\* DATASETS: collection -> ordered rows
DATASETS ==
  [sh \in Sheets |->
     IF sh = "Phones"
     THEN << \* iPhone 15 Pro 256GB
             Row(<<"i","P","h","o","n","e"," ","1","5"," ","P","r","o"," ","2","5","6","G","B">>,
                 <<"i","P","h","o","n","e"," ","1","5"," ","P","r","o"," ","2","5","6","G","B">>, 1000),
             \* iPhone 14 Pro 256GB
             Row(<<"i","P","h","o","n","e"," ","1","4"," ","P","r","o"," ","2","5","6","G","B">>,
                 <<"i","P","h","o","n","e"," ","1","4"," ","P","r","o"," ","2","5","6","G","B">>, 500),
             \* Galaxy S23 5G
             Row(<<"G","a","l","a","x","y"," ","S","2","3"," ","5","G">>,
                 <<"G","a","l","a","x","y"," ","S","2","3"," ","5","G","B">>, 345),
             \* iPhone SE
             Row(<<"i","P","h","o","n","e"," ","S","E">>,
                 <<"i","P","h","o","n","e"," ","S","E">>, 150) >>
     ELSE << \* iPad 11" Wi-Fi
             Row(<<"i","P","a","d"," ","1","1","\""," ","W","i","-","F","i">>,
                 <<"i","P","a","d"," ","1","1"," ","W","i","-","f","i">>, 470),
             \* Galaxy Tab
             Row(<<"G","a","l","a","x","y"," ","T","a","b">>,
                 <<"G","a","l","a","x","y"," ","T","a","b">>, 50) >>]

(***************************************************************************)
(* Text: a string that is searched or normalized is a sequence of          *)
(* one-character strings                                                   *)
(***************************************************************************)
LowerLetters ==
  <<"a","b","c","d","e","f","g","h","i","j","k","l","m",
    "n","o","p","q","r","s","t","u","v","w","x","y","z">>
UpperLetters ==
  <<"A","B","C","D","E","F","G","H","I","J","K","L","M",
    "N","O","P","Q","R","S","T","U","V","W","X","Y","Z">>
DigitChars == {"0","1","2","3","4","5","6","7","8","9"}
LowerChars == {LowerLetters[i] : i \in 1..26}
UpperChars == {UpperLetters[i] : i \in 1..26}

\* \w
IsWordChar(c) == c \in DigitChars \cup LowerChars \cup UpperChars \cup {"_"}

\* one character of toLowerCase()
LowerChar(c) ==
  IF c \in UpperChars
  THEN LowerLetters[CHOOSE i \in 1..26 : UpperLetters[i] = c]
  ELSE c

toLowerCase(s) == [i \in 1..Len(s) |-> LowerChar(s[i])]

\* the text w stands in s from position i on
HasAt(s, i, w) ==
  /\ i >= 1
  /\ i + Len(w) - 1 <= Len(s)
  /\ \A k \in 1..Len(w) : s[i + k - 1] = w[k]

\* \b at the gap in front of position i (i = Len(s) + 1 is the end)
BoundaryAt(s, i) ==
  LET before == i - 1 >= 1 /\ i - 1 <= Len(s) /\ IsWordChar(s[i - 1])
      after == i >= 1 /\ i <= Len(s) /\ IsWordChar(s[i])
  IN before # after

\* last position of the longest run of characters of set cs that starts at
\* position i; i - 1 when the run is empty
RunEnd(s, i, cs) ==
  CHOOSE j \in (i - 1)..Len(s) :
    /\ \A k \in i..j : s[k] \in cs
    /\ j = Len(s) \/ s[j + 1] \notin cs

\* the characters [a-z0-9. ] that normText keeps
KeptChars == LowerChars \cup DigitChars \cup {".", " "}

Inch == <<"i","n","c","h">>

\* the position of the last character of the match of pattern pat that starts
\* at position i, 0 when the pattern does not match there.  Patterns, in the
\* order normText applies them:
\*   "quote"     /["”]/               "dashinch"  /\b(\d+)\s*-\s*inch\b/
\*   "inch"      /\b(\d+)\s*inch(es)?\b/          "dash"      /-/
\*   "gen"       /\b([2-6])\s*g\b/    "strip"     /[^a-z0-9\. ]+/
\*   "spaces"    /\s+/                "brand"     /\b(ipad|iphone|apple|samsung)\b/
MatchEnd(s, i, pat) ==
  CASE pat = "quote" -> IF s[i] \in {"\"", "rdquo"} THEN i ELSE 0
    [] pat = "dashinch" ->
         IF ~(s[i] \in DigitChars /\ BoundaryAt(s, i)) THEN 0
         ELSE LET d == RunEnd(s, i, DigitChars)
                  a == RunEnd(s, d + 1, {" "})
                  b == RunEnd(s, a + 2, {" "})
              IN IF /\ HasAt(s, a + 1, <<"-">>)
                    /\ HasAt(s, b + 1, Inch)
                    /\ BoundaryAt(s, b + 5)
                 THEN b + 4 ELSE 0
    [] pat = "inch" ->
         IF ~(s[i] \in DigitChars /\ BoundaryAt(s, i)) THEN 0
         ELSE LET d == RunEnd(s, i, DigitChars)
                  a == RunEnd(s, d + 1, {" "})
              IN IF ~HasAt(s, a + 1, Inch) THEN 0
                 ELSE IF HasAt(s, a + 5, <<"e","s">>) /\ BoundaryAt(s, a + 7)
                      THEN a + 6
                 ELSE IF BoundaryAt(s, a + 5) THEN a + 4
                 ELSE 0
    [] pat = "dash" -> IF s[i] = "-" THEN i ELSE 0
    [] pat = "gen" ->
         IF ~(s[i] \in {"2","3","4","5","6"} /\ BoundaryAt(s, i)) THEN 0
         ELSE LET a == RunEnd(s, i + 1, {" "})
              IN IF HasAt(s, a + 1, <<"g">>) /\ BoundaryAt(s, a + 2)
                 THEN a + 1 ELSE 0
    [] pat = "strip" ->
         IF s[i] \in KeptChars THEN 0
         ELSE CHOOSE j \in i..Len(s) :
                /\ \A k \in i..j : s[k] \notin KeptChars
                /\ j = Len(s) \/ s[j + 1] \in KeptChars
    [] pat = "spaces" -> IF s[i] = " " THEN RunEnd(s, i, {" "}) ELSE 0
    [] pat = "brand" ->
         IF ~BoundaryAt(s, i) THEN 0
         ELSE LET ws == { <<"i","p","a","d">>, <<"i","p","h","o","n","e">>,
                          <<"a","p","p","l","e">>,
                          <<"s","a","m","s","u","n","g">> }
                  hit == {w \in ws : HasAt(s, i, w) /\ BoundaryAt(s, i + Len(w))}
              IN IF hit = {} THEN 0
                 ELSE i + Len(CHOOSE w \in hit : TRUE) - 1

\* what the match of pat over positions i..e is replaced by
Replacement(s, i, e, pat) ==
  CASE pat = "quote" -> <<" ">> \o Inch \o <<" ">>
    [] pat \in {"dashinch", "inch"} ->
         SubSeq(s, i, RunEnd(s, i, DigitChars)) \o <<" ">> \o Inch
    [] pat = "gen" -> <<s[i], "g">>
    [] pat = "brand" -> <<>>
    [] OTHER -> <<" ">>

\* s.replace(/pat/g, ...) from position i on: matches are taken left to
\* right and do not overlap
RECURSIVE replaceFrom(_, _, _)
replaceFrom(s, i, pat) ==
  IF i > Len(s) THEN <<>>
  ELSE LET e == MatchEnd(s, i, pat)
       IN IF e = 0 THEN <<s[i]>> \o replaceFrom(s, i + 1, pat)
          ELSE Replacement(s, i, e, pat) \o replaceFrom(s, e + 1, pat)

replaceAll(s, pat) == replaceFrom(s, 1, pat)

\* trim()
trim(s) ==
  IF \A k \in 1..Len(s) : s[k] = " " THEN <<>>
  ELSE LET first == CHOOSE i \in 1..Len(s) :
                      s[i] # " " /\ \A k \in 1..(i - 1) : s[k] = " "
           last == CHOOSE j \in 1..Len(s) :
                     s[j] # " " /\ \A k \in (j + 1)..Len(s) : s[k] = " "
       IN SubSeq(s, first, last)

\* the replacements normText makes, in order
NormPatterns ==
  <<"quote", "dashinch", "inch", "dash", "gen", "strip", "spaces">>

\* the replacements buildSearchBlob makes on the normalised name
BrandPatterns == <<"brand", "spaces">>

\* s = s.replace(...) for each pattern of pats from the k-th on
RECURSIVE replaceEach(_, _, _)
replaceEach(s, pats, k) ==
  IF k > Len(pats) THEN s
  ELSE replaceEach(replaceAll(s, pats[k]), pats, k + 1)

\* normText(s)
normText(s) == trim(replaceEach(toLowerCase(s), NormPatterns, 1))

\* the return expression of buildSearchBlob: base is normText(name),
\* stripped the base without brand words, sheetNorm is normText(sheetName)
\* (empty when there is no sheet name)
joinBlob(base, stripped, sheetNorm) ==
  trim(base \o <<" ">> \o stripped
       \o (IF sheetNorm # <<>> THEN <<" ">> \o sheetNorm ELSE <<>>))

\* buildSearchBlob from the normalised texts norms = <<base, sheetNorm>>
blobOf(norms) ==
  joinBlob(norms[1], trim(replaceEach(norms[1], BrandPatterns, 1)), norms[2])

\* buildSearchBlob(name, sheetName)
buildSearchBlob(name, sheetName) ==
  blobOf([k \in 1..2 |-> normText(<<name, sheetName>>[k])])

\* s.split(' ').filter(Boolean): the maximal runs without a blank
RECURSIVE tokensFrom(_, _)
tokensFrom(s, i) ==
  IF i > Len(s) THEN <<>>
  ELSE IF s[i] = " " THEN tokensFrom(s, i + 1)
  ELSE LET e == CHOOSE j \in i..Len(s) :
                  /\ \A k \in i..j : s[k] # " "
                  /\ j = Len(s) \/ s[j + 1] = " "
       IN <<SubSeq(s, i, e)>> \o tokensFrom(s, e + 1)

tokensOf(s) == tokensFrom(s, 1)

\* h.includes(t)
includes(h, t) == \E i \in 1..(Len(h) - Len(t) + 1) : HasAt(h, i, t)

\* h.startsWith(t)
startsWith(h, t) == HasAt(h, 1, t)

Min2(x, y) == IF x <= y THEN x ELSE y

\* the inner loop of levenshtein for character a[i]: old is the row dp before
\* the pass, acc the entries of the new row computed so far (dp[j] is entry
\* j + 1 of a row)
RECURSIVE levRow(_, _, _, _, _)
levRow(a, b, i, old, acc) ==
  LET j == Len(acc)
  IN IF j > Len(b) THEN acc
     ELSE LET cost == IF a[i] = b[j] THEN 0 ELSE 1
              v == Min2(Min2(old[j + 1] + 1, acc[j] + 1), old[j] + cost)
          IN levRow(a, b, i, old, Append(acc, v))

\* the outer loop of levenshtein from character a[i] on
RECURSIVE levRows(_, _, _, _)
levRows(a, b, i, dp) ==
  IF i > Len(a) THEN dp
  ELSE levRows(a, b, i + 1, levRow(a, b, i, dp, <<i>>))

\* levenshtein(a, b)
levenshtein(a, b) ==
  IF a = b THEN 0
  ELSE IF Len(a) = 0 THEN Len(b)
  ELSE IF Len(b) = 0 THEN Len(a)
  ELSE levRows(a, b, 1, [j \in 1..(Len(b) + 1) |-> j - 1])[Len(b) + 1]

Abs(x) == IF x < 0 THEN -x ELSE x

\* fuzzyTokenMatch with an edit bound of 2 for tokens of every length
fuzzyTokenMatch_ed2(token, hayTokens) ==
  \/ token = <<>>
  \/ \E k \in 1..Len(hayTokens) : includes(hayTokens[k], token)
  \/ \E k \in 1..Len(hayTokens) :
       /\ Abs(Len(hayTokens[k]) - Len(token)) <= 3
       /\ levenshtein(token, hayTokens[k]) <= 2

\* fuzzyTokenMatch(token, hayTokens)
fuzzyTokenMatch(token, hayTokens) ==
  \/ token = <<>>
  \/ \E k \in 1..Len(hayTokens) : includes(hayTokens[k], token)
  \/ LET maxEd == IF Len(token) >= 6 THEN 2 ELSE 1
     IN \E k \in 1..Len(hayTokens) :
          /\ Abs(Len(hayTokens[k]) - Len(token)) <= 3
          /\ levenshtein(token, hayTokens[k]) <= maxEd

\* the loop of matchesQuery satisfied by a single matching query token
allTokensMatch_some(tokens, hayTokens) ==
  \E k \in 1..Len(tokens) : fuzzyTokenMatch(tokens[k], hayTokens)

\* the loop of matchesQuery: every query token matches some hay token
allTokensMatch(tokens, hayTokens) ==
  \A k \in 1..Len(tokens) : fuzzyTokenMatch(tokens[k], hayTokens)

\* matchesQuery(row, q)
matchesQuery(row, q) ==
  \/ q = <<>>
  \/ allTokensMatch(tokensOf(normText(q)), tokensOf(row.search))

\* the token is a number: /^\d+(?:\.\d+)?$/
IsNumToken(t) ==
  /\ t # <<>>
  /\ \A k \in 1..Len(t) : t[k] \in DigitChars \cup {"."}
  /\ Cardinality({k \in 1..Len(t) : t[k] = "."}) <= 1
  /\ t[1] # "." /\ t[Len(t)] # "."

DigitVal(c) ==
  CASE c = "0" -> 0 [] c = "1" -> 1 [] c = "2" -> 2 [] c = "3" -> 3
    [] c = "4" -> 4 [] c = "5" -> 5 [] c = "6" -> 6 [] c = "7" -> 7
    [] c = "8" -> 8 [] c = "9" -> 9

\* the whole number a digit string writes
RECURSIVE DigitsVal(_)
DigitsVal(t) ==
  IF t = <<>> THEN 0
  ELSE 10 * DigitsVal(SubSeq(t, 1, Len(t) - 1)) + DigitVal(t[Len(t)])

\* parseFloat of a number token, fixed-point; exact up to two decimals
parseFloat(t) ==
  IF \A k \in 1..Len(t) : t[k] # "." THEN Fix(DigitsVal(t))
  ELSE LET dot == CHOOSE k \in 1..Len(t) : t[k] = "."
           frac == SubSeq(t, dot + 1, Len(t))
           f2 == IF Len(frac) = 1 THEN 10 * DigitVal(frac[1])
                 ELSE 10 * DigitVal(frac[1]) + DigitVal(frac[2])
       IN Fix(DigitsVal(SubSeq(t, 1, dot - 1))) + f2

\* extractNums(tokens), as the set of values: only the smallest difference
\* between two lists is ever used
extractNums(tokens) ==
  {parseFloat(tokens[k]) : k \in {j \in 1..Len(tokens) : IsNumToken(tokens[j])}}

\* tokenBest that scores a hay token containing tok like an equal one
tokenBest_containIsEqual(tok, hayTokens) ==
  LET maxEd == IF Len(tok) >= 6 THEN 2 ELSE 1
  IN IF \E k \in 1..Len(hayTokens) : includes(hayTokens[k], tok) THEN 10
     ELSE IF \E k \in 1..Len(hayTokens) :
               /\ Abs(Len(hayTokens[k]) - Len(tok)) <= 3
               /\ levenshtein(tok, hayTokens[k]) <= maxEd
          THEN 3
     ELSE 0

\* the best per-token signal of rankScore for query token tok
tokenBest(tok, hayTokens) ==
  LET maxEd == IF Len(tok) >= 6 THEN 2 ELSE 1
  IN IF \E k \in 1..Len(hayTokens) : hayTokens[k] = tok THEN 10
     ELSE IF \E k \in 1..Len(hayTokens) :
               startsWith(hayTokens[k], tok) \/ includes(hayTokens[k], tok)
          THEN 6
     ELSE IF \E k \in 1..Len(hayTokens) :
               /\ Abs(Len(hayTokens[k]) - Len(tok)) <= 3
               /\ levenshtein(tok, hayTokens[k]) <= maxEd
          THEN 3
     ELSE 0

RECURSIVE SumSeq(_)
SumSeq(q) == IF q = <<>> THEN 0 ELSE q[1] + SumSeq(Tail(q))

\* the least element of a non-empty set of numbers
MinOf(ds) == CHOOSE d \in ds : \A e \in ds : d <= e

\* the score for the smallest difference bestDelta between a query number
\* and a hay number, fixed-point
deltaScore(bestDelta) ==
  IF bestDelta = 0 THEN Fix(25)
  ELSE IF bestDelta <= Fix(1) THEN Fix(10)
  ELSE IF bestDelta <= Fix(2) THEN Fix(5)
  ELSE -bestDelta

\* the numeric proximity part of rankScore
numericScore(qNums, hNums) ==
  IF qNums = {} \/ hNums = {} THEN 0
  ELSE deltaScore(MinOf({Abs(hn - qn) : qn \in qNums, hn \in hNums}))

\* the length penalty of rankScore: 0.25 per extra hay token, fixed-point
lengthPenalty(extra) == IF extra > 0 THEN extra * 25 ELSE 0

\* rankScore once the query is normalised to a non-empty nq and both texts
\* are split into tokens
scoreTokens(hay, nq, tokens, hayTokens) ==
  Fix(IF includes(hay, nq) THEN 40 ELSE 0)
  + Fix(12 * Cardinality({i \in 1..(Len(tokens) - 1) :
                 includes(hay, tokens[i] \o <<" ">> \o tokens[i + 1])}))
  + Fix(SumSeq([k \in 1..Len(tokens) |-> tokenBest(tokens[k], hayTokens)]))
  + numericScore(extractNums(tokens), extractNums(hayTokens))
  - lengthPenalty(Len(hayTokens) - Len(tokens))

\* rankScore from the normalised query nq
scoreNorm(hay, nq) ==
  IF nq = <<>> THEN 0
  ELSE scoreTokens(hay, nq, tokensOf(nq), tokensOf(hay))

\* rankScore(row, q), fixed-point
rankScore(row, q) == scoreNorm(row.search, normText(q))

(***************************************************************************)
(* Render                                                                  *)
(***************************************************************************)
\* prepareIndex() that turns the entries of every collection around on each
\* call after the first
prepareIndex_reorder(prepared) ==
  IF prepared # null
  THEN Obj([sh \in Sheets |->
         [i \in 1..Len(prepared.o[sh]) |->
            prepared.o[sh][Len(prepared.o[sh]) + 1 - i]]])
  ELSE Obj([sh \in Sheets |->
         [i \in 1..Len(DATASETS[sh]) |->
            [device |-> DATASETS[sh][i].device,
             price |-> DATASETS[sh][i].price,
             search |-> buildSearchBlob(DATASETS[sh][i].display, SheetText[sh])]]])

\* prepareIndex(): the search corpus, built on the first call only
prepareIndex(prepared) ==
  IF prepared # null THEN prepared
  ELSE Obj([sh \in Sheets |->
         [i \in 1..Len(DATASETS[sh]) |->
            [device |-> DATASETS[sh][i].device,
             price |-> DATASETS[sh][i].price,
             search |-> buildSearchBlob(DATASETS[sh][i].display, SheetText[sh])]]])

\* the comparator with equal scores ordered by descending index
Before_tiesReversed(x, y) == x.sc > y.sc \/ (x.sc = y.sc /\ x.idx > y.idx)

\* the comparator of matches.sort: (b.sc - a.sc) || (a.idx - b.idx) < 0
Before(x, y) == x.sc > y.sc \/ (x.sc = y.sc /\ x.idx < y.idx)

\* matches.sort(...): idx is unique, so the comparator is a total order and
\* the sorted list is the one list that places every match after all the
\* matches that come Before it
sortMatches(ms) ==
  [k \in 1..Len(ms) |->
     ms[CHOOSE i \in 1..Len(ms) :
          Cardinality({j \in 1..Len(ms) : Before(ms[j], ms[i])}) = k - 1]]

\* the rows.forEach of render that lists nothing while the search box is
\* empty
RECURSIVE matchesFrom_requiresQuery(_, _, _, _, _)
matchesFrom_requiresQuery(raw, name, rows, q, i) ==
  IF i > Len(rows) THEN <<>>
  ELSE LET r == rows[i]
           rest == matchesFrom_requiresQuery(raw, name, rows, q, i + 1)
       IN IF q = <<>> \/ ~matchesQuery(r, q) THEN rest
          ELSE << [idx |-> i - 1,
                   dev |-> r.device,
                   price |-> finalPriceFor(raw, name, r.price),
                   sc |-> rankScore(r, q)] >> \o rest

\* the rows.forEach of render for one collection: the matches pushed for the
\* rows from i on
RECURSIVE matchesFrom(_, _, _, _, _)
matchesFrom(raw, name, rows, q, i) ==
  IF i > Len(rows) THEN <<>>
  ELSE LET r == rows[i]
           rest == matchesFrom(raw, name, rows, q, i + 1)
       IN IF ~matchesQuery(r, q) THEN rest
          ELSE << [idx |-> i - 1,
                   dev |-> r.device,
                   price |-> finalPriceFor(raw, name, r.price),
                   sc |-> IF q # <<>> THEN rankScore(r, q) ELSE 0] >> \o rest

\* render(): per collection, the list of {idx, dev, price, sc} put on screen
render(raw, prepared, q) ==
  [sh \in Sheets |-> sortMatches(matchesFrom(raw, sh, prepared.o[sh], q, 1))]

(***************************************************************************)
(* Settings editor (Engine Room)                                           *)
(***************************************************************************)
\* what a number input holds after input.value = v: the number, or '' when
\* v does not format as a finite number
NumField(v) == IF v.ty = "number" THEN v ELSE Str("")

\* the value makeRuleRow puts in a rule input: '' for null and for 0
RuleField(v) ==
  IF IsNullish(v) \/ v = Num(0) THEN Str("") ELSE NumField(v)

\* cfg.perSheet?.[sheetName]?.[label]
SheetRuleSrc(cfg, sh, label) ==
  LET ps == Get(cfg, "perSheet")
  IN IF IsNullish(ps) \/ IsNullish(Get(ps, sh)) THEN undefined
     ELSE Get(Get(ps, sh), label)

\* cfg.defaults?.[label]
DefaultRuleSrc(cfg, label) ==
  IF IsNullish(Get(cfg, "defaults")) THEN undefined
  ELSE Get(Get(cfg, "defaults"), label)

\* makeRuleRow(label, scope, sheetName): the two inputs of one rule row
makeRuleRow(raw, label, scope, sh) ==
  LET cfg == getEngineConfig(raw)
      src == IF scope = "defaults" THEN DefaultRuleSrc(cfg, label)
             ELSE SheetRuleSrc(cfg, sh, label)
      rule == asRuleObj(src)
  IN [pct |-> RuleField(rule.pct), flat |-> RuleField(rule.flat)]

\* buildEngineUI(): buildBucketsUI and buildRulesUI over the stored item.
\* buckets: one row {label, lo, hi} per active bucket; labels: the label of
\* each rule row; defaults / sheets: the rule rows, one per active bucket
buildEngineUI(raw) ==
  LET bucks == activeBuckets(raw)
      n == Len(bucks)
  IN [buckets |-> [i \in 1..n |->
                     [label |-> bucks[i].label,
                      lo |-> NumField(bucks[i].lo),
                      hi |-> IF bucks[i].hi = Infinity THEN Num(999999)
                             ELSE NumField(bucks[i].hi)]],
      labels |-> [i \in 1..n |-> bucks[i].label],
      defaults |-> [i \in 1..n |-> makeRuleRow(raw, bucks[i].label, "defaults", "")],
      sheets |-> [sh \in Sheets |->
                    [i \in 1..n |-> makeRuleRow(raw, bucks[i].label, "sheet", sh)]]]

\* the editor before the first buildEngineUI: no rows at all
EmptyEditor ==
  [buckets |-> <<>>, labels |-> <<>>, defaults |-> <<>>,
   sheets |-> [sh \in Sheets |-> <<>>]]

\* the rule object the save handler reads from one rule row
RowRule(row) ==
  Obj([f \in {"pct", "flat"} |->
         IF row[f] = Str("") THEN null ELSE Number(row[f])])

\* the rules object built from a list of rule rows: a later row with the
\* same label overwrites an earlier one
RulesOf(labels, rows) ==
  Obj([l \in {labels[i] : i \in 1..Len(labels)} |->
         LET last == CHOOSE i \in 1..Len(labels) :
                       /\ labels[i] = l
                       /\ \A j \in (i + 1)..Len(labels) : labels[j] # l
         IN RowRule(rows[last])])

\* the bucket triple the save handler reads from one bucket row
RowBucket(row) ==
  LET label == IF row.label = "" THEN "Bucket" ELSE row.label
      low == Number(OrElse(row.lo, Num(0)))
      high == IF row.hi = Str("") THEN Infinity ELSE Number(row.hi)
  IN Arr(<< Str(label), low, IF high.ty = "number" THEN high ELSE Infinity >>)

\* the configuration the save handler hands to setEngineConfig
savedConfig(raw, ed) ==
  LET cfg == getEngineConfig(raw)
      rows == [i \in 1..Len(ed.buckets) |-> RowBucket(ed.buckets[i])]
  IN Obj([k \in DOMAIN cfg.o |->
       CASE k = "buckets" -> IF Len(rows) # 0 THEN Arr(rows) ELSE cfg.o[k]
         [] k = "defaults" -> RulesOf(ed.labels, ed.defaults)
         [] k = "perSheet" ->
              Obj([sh \in Sheets |-> RulesOf(ed.labels, ed.sheets[sh])])
         [] OTHER -> cfg.o[k]])

(***************************************************************************)
(* Inputs                                                                  *)
(***************************************************************************)
\* edits a user makes in one session before the model stops adding more
MaxEdits == 1

\* a rule object {pct, flat} of a configuration document
Rule(pct, flat) ==
  Obj([f \in {"pct", "flat"} |-> IF f = "pct" THEN pct ELSE flat])

\* a configuration document with the given fields
Doc(fields) == Obj(fields)

\* documents the remote configuration URL may serve
RemoteDocs ==
  { \* two disjoint buckets; A has a default rule and a per-sheet override
    \* of its percentage only, B has no rule anywhere
    Doc([k \in {"defaults", "perSheet", "buckets"} |->
      CASE k = "buckets" ->
             Arr(<< Arr(<<Str("A"), Num(1), Num(100)>>),
                    Arr(<<Str("B"), Num(101), Num(220)>>) >>)
        [] k = "defaults" -> Obj([l \in {"A"} |-> Rule(Num(30), Num(5))])
        [] k = "perSheet" ->
             Obj([sh \in {"Phones"} |->
                    Obj([l \in {"A"} |-> Rule(Num(10), null)])])]),
    \* overlapping buckets, the second with a null high bound; a percentage
    \* above 100, a flat amount above every base, an explicit 0 override
    Doc([k \in {"defaults", "perSheet", "buckets"} |->
      CASE k = "buckets" ->
             Arr(<< Arr(<<Str("A"), Num(1), Num(200)>>),
                    Arr(<<Str("B"), Num(101), null>>) >>)
        [] k = "defaults" ->
             Obj([l \in {"A", "B"} |->
                    IF l = "A" THEN Rule(Num(150), null)
                    ELSE Rule(Num(20), Num(50))])
        [] k = "perSheet" ->
             Obj([sh \in {"Phones"} |->
                    Obj([l \in {"A", "B"} |->
                           IF l = "A" THEN Rule(Num(0), null)
                           ELSE Rule(Str(""), Num(2000))])])]),
    \* no buckets field; a legacy numeric rule and a rule with both fields
    \* unset
    Doc([k \in {"defaults"} |->
           Obj([l \in {"1-100", "470+"} |->
                  IF l = "1-100" THEN Rule(null, null) ELSE Num(20)])]),
    \* high bound "" and high bound left out; no rules
    Doc([k \in {"buckets"} |->
           Arr(<< Arr(<<Str("301-469"), Num(301), Str("")>>),
                  Arr(<<Str("X"), Num(100)>>) >>)]) }

\* what a user types into a high bound
BucketFieldValues == {Str(""), Num(150)}

\* what a user types into a rule field: a number over 100
RuleFieldValues == {Num(150)}

\* the row a user edits: the last one
EditRows(n) == {i \in {n} : 1 <= i}

\* the collection whose per-sheet rule fields a user edits
EditSheets == {SheetOrder[1]}

\* what a user types into the search box
Queries == { <<"1","5"," ","P","r","o">> }

\* base prices the properties are evaluated at
Bases == {50, 100, 101, 150, 220, 500, 1000}

(***************************************************************************)
(* State                                                                   *)
(***************************************************************************)
VARIABLES
  store,        \* localStorage item engineConfigV1: NoItem or the stored document
  pc,           \* "fetching" until the boot sequence has rendered, then "ready"
  editor,       \* the input rows of the settings editor
  overlay,      \* the settings overlay is displayed
  body,         \* the editor body (with Save and Reset) is displayed
  query,        \* the text in the search box
  activeSheet,  \* the selected collection
  PREPARED,     \* the search corpus, null until the first render
  shown,        \* the lists the last render put on screen
  edits,        \* number of field edits made so far
  arg,          \* the argument of a direct call of roundPrice
  res,          \* the value it returned, in a tuple; NotCalled before the call
  theme,        \* localStorage item uiThemeV1 and the data-theme attribute
  configSource, \* window.__CONFIG_SOURCE__: the remote document last applied
  clock,        \* milliseconds since the boot script started
  requests,     \* the URLs the loader has requested, in order
  loader,       \* window.initEngineConfigFromServer is defined
  pending,      \* PIN checks whose hash is still being computed, by outcome
  submitted     \* the right PIN was submitted since the overlay was last opened

vars == <<store, pc, editor, overlay, body, query, activeSheet, PREPARED,
          shown, edits, arg, res, theme, configSource, clock, requests, loader,
          pending, submitted>>

\* the variables of the PIN check
pin == <<pending, submitted>>

\* the variables of the boot script's wait and of the loader's requests
boot == <<clock, requests, loader>>

\* the variables of a direct call
call == <<arg, res>>

\* no call has returned yet
NotCalled == <<>>

\* PIN checks that may be pending at once
MaxPending == 2

\* no PIN check is pending
NoChecks == [right |-> 0, wrong |-> 0]

Init ==
  /\ store = NoItem
  /\ pc = "fetching"
  /\ editor = EmptyEditor
  /\ overlay = FALSE
  /\ body = FALSE
  /\ query = <<>>
  /\ activeSheet = SheetOrder[1]
  /\ PREPARED = null
  /\ shown = [sh \in Sheets |-> <<>>]
  /\ edits = 0
  /\ arg = 0
  /\ res = NotCalled
  /\ theme = loadTheme(NoItem)
  /\ configSource = undefined
  /\ clock = 0
  /\ requests = <<>>
  /\ loader = FALSE
  /\ pending = NoChecks
  /\ submitted = FALSE

\* a call of render() that reads the stored item raw and the query q
DoRender(raw, q) ==
  /\ PREPARED' = prepareIndex(PREPARED)
  /\ shown' = render(raw, PREPARED', q)

\* initEngineConfigFromServer() got a document, then the boot sequence renders
FetchDone ==
  /\ pc = "fetching"
  /\ \E remote \in RemoteDocs :
       /\ store' = setEngineConfig(mergeConfig(getEngineConfig(store), remote))
       /\ theme' = mergeConfigTheme(theme, remote)
       /\ configSource' = remote
  /\ pc' = "ready"
  /\ DoRender(store', query)
  /\ UNCHANGED <<editor, overlay, body, query, activeSheet, edits, call, boot, pin>>

\* both URLs failed: no remote config, the boot sequence renders
FetchFail ==
  /\ pc = "fetching"
  /\ pc' = "ready"
  /\ DoRender(store, query)
  /\ UNCHANGED <<store, editor, overlay, body, query, activeSheet, edits, call,
                 theme, configSource, boot, pin>>

\* the input handler with a render that writes the configuration it read
\* back to the store
QueryChange_persist ==
  /\ \E q \in Queries \cup {<<>>} : q # query /\ query' = q
  /\ store' = setEngineConfig(getEngineConfig(store))
  /\ DoRender(store', query')
  /\ UNCHANGED <<pc, editor, overlay, body, activeSheet, edits, call,
                 theme, configSource, boot, pin>>

\* input event of the search box
QueryChange ==
  /\ \E q \in Queries \cup {<<>>} : q # query /\ query' = q
  /\ DoRender(store, query')
  /\ UNCHANGED <<store, pc, editor, overlay, body, activeSheet, edits, call,
                 theme, configSource, boot, pin>>

\* change event of the collection dropdown
SheetChange ==
  /\ \E sh \in Sheets : sh # activeSheet /\ activeSheet' = sh
  /\ DoRender(store, query)
  /\ UNCHANGED <<store, pc, editor, overlay, body, query, edits, call,
                 theme, configSource, boot, pin>>

\* openEngine()
OpenEngine ==
  /\ overlay' = TRUE
  /\ body' = FALSE
  /\ submitted' = FALSE
  /\ UNCHANGED <<store, pc, editor, query, activeSheet, PREPARED, shown, edits,
                 call,
                 theme, configSource, boot, pending>>

\* closeEngine()
CloseEngine ==
  /\ overlay
  /\ overlay' = FALSE
  /\ UNCHANGED <<store, pc, editor, body, query, activeSheet, PREPARED, shown,
                 edits, call,
                 theme, configSource, boot, pin>>

\* pinCheck click with the right PIN
PinOk ==
  /\ overlay
  /\ editor' = buildEngineUI(store)
  /\ body' = TRUE
  /\ submitted' = TRUE
  /\ UNCHANGED <<store, pc, overlay, query, activeSheet, PREPARED, shown, edits,
                 call,
                 theme, configSource, boot, pending>>

\* pinCheck click: pinInput.value is read and hashSHA256 starts; the handler
\* is suspended at its await until the digest is there
PinClick(right) ==
  /\ overlay
  /\ pending.right + pending.wrong < MaxPending
  /\ pending' = IF right THEN [pending EXCEPT !.right = @ + 1]
                         ELSE [pending EXCEPT !.wrong = @ + 1]
  /\ submitted' = (submitted \/ right)
  /\ UNCHANGED <<store, pc, editor, overlay, body, query, activeSheet, PREPARED,
                 shown, edits, call, theme, configSource, boot>>

\* the digest of a pending check arrives and the handler resumes:
\* h === PIN_SHA256 builds the editor and shows the body, else alert('Wrong PIN')
PinDone(right) ==
  /\ IF right THEN pending.right > 0 ELSE pending.wrong > 0
  /\ pending' = IF right THEN [pending EXCEPT !.right = @ - 1]
                         ELSE [pending EXCEPT !.wrong = @ - 1]
  /\ editor' = IF right THEN buildEngineUI(store) ELSE editor
  /\ body' = IF right THEN TRUE ELSE body
  /\ UNCHANGED <<store, pc, overlay, query, activeSheet, PREPARED, shown, edits,
                 call, theme, configSource, boot, submitted>>


\* the user types into the hi input of a bucket row
EditBucket ==
  /\ overlay /\ body /\ edits < MaxEdits
  /\ \E i \in EditRows(Len(editor.buckets)), v \in BucketFieldValues :
       editor' = [editor EXCEPT !.buckets[i].hi = v]
  /\ edits' = edits + 1
  /\ UNCHANGED <<store, pc, overlay, body, query, activeSheet, PREPARED, shown,
                 call,
                 theme, configSource, boot, pin>>

\* the user types into the % or $ input of a rule row
EditRule ==
  /\ overlay /\ body /\ edits < MaxEdits
  /\ \E i \in EditRows(Len(editor.labels)), f \in {"pct", "flat"},
        v \in RuleFieldValues :
       \/ editor' = [editor EXCEPT !.defaults[i][f] = v]
       \/ \E sh \in EditSheets : editor' = [editor EXCEPT !.sheets[sh][i][f] = v]
  /\ edits' = edits + 1
  /\ UNCHANGED <<store, pc, overlay, body, query, activeSheet, PREPARED, shown,
                 call,
                 theme, configSource, boot, pin>>

\* Add Bucket click: one more bucket row, all three inputs blank
AddBucket ==
  /\ overlay /\ body /\ edits < MaxEdits
  /\ editor' = [editor EXCEPT !.buckets =
                  Append(@, [label |-> "", lo |-> Str(""), hi |-> Str("")])]
  /\ edits' = edits + 1
  /\ UNCHANGED <<store, pc, overlay, body, query, activeSheet, PREPARED, shown,
                 call,
                 theme, configSource, boot, pin>>

\* the save handler without its render() call
Save_noRender ==
  /\ overlay /\ body
  /\ store' = setEngineConfig(savedConfig(store, editor))
  /\ UNCHANGED <<pc, editor, overlay, body, query, activeSheet, PREPARED,
                 shown, edits, call, theme, configSource, boot, pin>>

\* saveBtn click
Save ==
  /\ overlay /\ body
  /\ store' = setEngineConfig(savedConfig(store, editor))
  /\ DoRender(store', query)
  /\ UNCHANGED <<pc, editor, overlay, body, query, activeSheet, edits, call,
                 theme, configSource, boot, pin>>

\* resetBtn click, confirmed
Reset ==
  /\ overlay /\ body
  /\ store' = setEngineConfig(DefaultConfig)
  /\ editor' = buildEngineUI(store')
  /\ DoRender(store', query)
  /\ UNCHANGED <<pc, overlay, body, query, activeSheet, edits, call,
                 theme, configSource, boot, pin>>

\* themes a user picks in the settings
ThemeChoices == {"clean-pro", "obsidian"}

\* the theme select with a handler that also stores the configuration
ThemeChange_config ==
  /\ overlay /\ body
  /\ \E t \in ThemeChoices : t # theme /\ theme' = applyTheme(t)
  /\ store' = setEngineConfig(getEngineConfig(store))
  /\ UNCHANGED <<pc, editor, overlay, body, query, activeSheet, PREPARED,
                 shown, edits, call, configSource, boot, pin>>

\* change event of the theme select in the editor body
ThemeChange ==
  /\ overlay /\ body
  /\ \E t \in ThemeChoices : t # theme /\ theme' = applyTheme(t)
  /\ UNCHANGED <<store, pc, editor, overlay, body, query, activeSheet,
                 PREPARED, shown, edits, call, configSource, boot, pin>>

\* the settings session: boot, the overlay, field edits, save and reset
NextConfig ==
  \/ FetchDone
  \/ FetchFail
  \/ OpenEngine
  \/ CloseEngine
  \/ PinOk
  \/ EditBucket
  \/ EditRule
  \/ AddBucket
  \/ Save
  \/ Reset

\* the browsing session: boot, typing a query, changing the collection, and
\* the overlay with save and reset but without field edits
NextBrowse ==
  \/ FetchDone
  \/ FetchFail
  \/ QueryChange
  \/ SheetChange
  \/ OpenEngine
  \/ CloseEngine
  \/ PinOk
  \/ ThemeChange
  \/ Save
  \/ Reset

Next == NextConfig \/ NextBrowse

Spec == Init /\ [][Next]_vars

\* the user changes settings and leaves the search box alone
SpecConfig == Init /\ [][NextConfig]_vars

\* the user searches and browses and leaves the editor's fields alone
SpecBrowse == Init /\ [][NextBrowse]_vars

(***************************************************************************)
(* The PIN check, with its asynchronous digest                             *)
(***************************************************************************)
NextPin ==
  \/ FetchDone
  \/ FetchFail
  \/ OpenEngine
  \/ CloseEngine
  \/ \E right \in BOOLEAN : PinClick(right)
  \/ \E right \in BOOLEAN : PinDone(right)
  \/ Save
  \/ Reset

\* the user opens and closes the overlay and submits PINs; every digest
\* arrives at some later moment
SpecPin == Init /\ [][NextPin]_vars

(***************************************************************************)
(* Searching the list                                                      *)
(***************************************************************************)
\* what a user types into the search box: pro; iphone; galaxy; 256gb; 15 pro 256; tab; s23 5g; 14; se; ipad 11
ListQueries ==
  { <<"p","r","o">>,
    <<"i","p","h","o","n","e">>,
    <<"g","a","l","a","x","y">>,
    <<"2","5","6","g","b">>,
    <<"1","5"," ","p","r","o"," ","2","5","6">>,
    <<"t","a","b">>,
    <<"s","2","3"," ","5","g">>,
    <<"1","4">>,
    <<"s","e">>,
    <<"i","p","a","d"," ","1","1">> }

\* input event of the search box with a text of ListQueries, or cleared
QueryInput ==
  /\ \E q \in ListQueries \cup {<<>>} : q # query /\ query' = q
  /\ DoRender(store, query')
  /\ UNCHANGED <<store, pc, editor, overlay, body, activeSheet, edits, call,
                 theme, configSource, boot, pin>>

NextList ==
  \/ FetchDone
  \/ FetchFail
  \/ QueryInput
  \/ SheetChange

\* the user searches and changes the collection and leaves the settings alone
SpecList == Init /\ [][NextList]_vars

(***************************************************************************)
(* Direct calls of roundPrice                                              *)
(***************************************************************************)
\* the largest argument, in whole units
MaxPrice == 1200

\* arguments: every quarter from 0 to MaxPrice, fixed-point
RoundInputs == {25 * k : k \in 0..(4 * MaxPrice)}

InitRound ==
  /\ store = NoItem
  /\ pc = "fetching"
  /\ editor = EmptyEditor
  /\ overlay = FALSE
  /\ body = FALSE
  /\ query = <<>>
  /\ activeSheet = SheetOrder[1]
  /\ PREPARED = null
  /\ shown = [sh \in Sheets |-> <<>>]
  /\ edits = 0
  /\ arg \in RoundInputs
  /\ res = NotCalled
  /\ theme = loadTheme(NoItem)
  /\ configSource = undefined
  /\ clock = 0
  /\ requests = <<>>
  /\ loader = FALSE
  /\ pending = NoChecks
  /\ submitted = FALSE

CallRoundPrice ==
  /\ res = NotCalled
  /\ res' = <<roundPrice(arg)>>
  /\ UNCHANGED <<store, pc, editor, overlay, body, query, activeSheet,
                 PREPARED, shown, edits, arg,
                 theme, configSource, boot, pin>>

NextRound == CallRoundPrice

SpecRound == InitRound /\ [][NextRound]_vars

(***************************************************************************)
(* The boot script and the loader, request by request                      *)
(***************************************************************************)
PRIMARY_URL == "/config.json"
FALLBACK_URL == "/engine/config.json"

\* the pause between two looks at window.initEngineConfigFromServer
PollMs == 50

\* timeoutMs of waitFor
WaitTimeoutMs == 3000

\* the clock stops being advanced here
MaxClock == 3200

\* bodies a configuration URL may answer with: the documents, JSON null, and
\* a document that names a theme
BootBodies ==
  RemoteDocs \cup {null, Doc([k \in {"uiTheme"} |-> Str("obsidian")])}

\* what one stored before this page load: nothing, or the defaults of a reset
BootStores == {NoItem, setEngineConfig(DefaultConfig)}

InitBoot ==
  /\ store \in BootStores
  /\ pc = "waiting"
  /\ editor = EmptyEditor
  /\ overlay = FALSE
  /\ body = FALSE
  /\ query = <<>>
  /\ activeSheet = SheetOrder[1]
  /\ PREPARED = null
  /\ shown = [sh \in Sheets |-> <<>>]
  /\ edits = 0
  /\ arg = 0
  /\ res = NotCalled
  /\ theme = loadTheme(NoItem)
  /\ configSource = undefined
  /\ clock = 0
  /\ requests = <<>>
  /\ loader = FALSE
  /\ pending = NoChecks
  /\ submitted = FALSE

\* what the boot script leaves alone
page == <<editor, overlay, body, query, activeSheet, edits, call, pin>>

\* the loader script at the end of the body runs and defines
\* window.initEngineConfigFromServer
LoaderDefined ==
  /\ pc = "waiting" /\ ~loader
  /\ loader' = TRUE
  /\ UNCHANGED <<store, pc, PREPARED, shown, theme, configSource, clock,
                 requests, page>>

\* waitFor: the function is not there and the timeout has not passed; sleep
WaitSleep ==
  /\ pc = "waiting" /\ ~loader /\ ~(clock > WaitTimeoutMs)
  /\ clock' = clock + PollMs
  /\ UNCHANGED <<store, pc, PREPARED, shown, theme, configSource, requests,
                 loader, page>>

\* waitFor: the function is not there and the timeout has passed; the boot
\* script renders
WaitTimeout ==
  /\ pc = "waiting" /\ ~loader /\ clock > WaitTimeoutMs
  /\ pc' = "ready"
  /\ DoRender(store, query)
  /\ UNCHANGED <<store, theme, configSource, boot, page>>

\* waitFor: the function is there; it is called and requests PRIMARY_URL
CallLoader ==
  /\ pc = "waiting" /\ loader
  /\ requests' = Append(requests, PRIMARY_URL)
  /\ pc' = "primary"
  /\ UNCHANGED <<store, PREPARED, shown, theme, configSource, clock, loader,
                 page>>

\* time passes while a request is pending
Tick ==
  /\ pc \in {"primary", "fallback"}
  /\ clock + PollMs <= MaxClock
  /\ clock' = clock + PollMs
  /\ UNCHANGED <<store, pc, PREPARED, shown, theme, configSource, requests,
                 loader, page>>

\* the rest of initEngineConfigFromServer once a request was answered with
\* body remote, and the render of the boot script after it
Answered(remote) ==
  /\ IF Truthy(remote)
     THEN /\ store' = setEngineConfig(mergeConfig(getEngineConfig(store), remote))
          /\ theme' = mergeConfigTheme(theme, remote)
          /\ configSource' = remote
     ELSE UNCHANGED <<store, theme, configSource>>
  /\ pc' = "ready"
  /\ DoRender(store', query)
  /\ UNCHANGED <<boot, page>>

\* PRIMARY_URL answers with a success status and a JSON body, and after it
\* the loader requests FALLBACK_URL all the same
PrimaryOk_thenFallback ==
  /\ pc = "primary"
  /\ \E remote \in BootBodies :
       /\ IF Truthy(remote)
          THEN /\ store' = setEngineConfig(mergeConfig(getEngineConfig(store), remote))
               /\ theme' = mergeConfigTheme(theme, remote)
               /\ configSource' = remote
          ELSE UNCHANGED <<store, theme, configSource>>
  /\ requests' = Append(requests, FALLBACK_URL)
  /\ pc' = "fallback"
  /\ UNCHANGED <<PREPARED, shown, clock, loader, page>>

\* PRIMARY_URL answers with a success status and a JSON body
PrimaryOk ==
  /\ pc = "primary"
  /\ \E remote \in BootBodies : Answered(remote)

\* PRIMARY_URL fails (network error, status not ok, body not JSON): the
\* loader requests FALLBACK_URL
PrimaryFail ==
  /\ pc = "primary"
  /\ requests' = Append(requests, FALLBACK_URL)
  /\ pc' = "fallback"
  /\ UNCHANGED <<store, PREPARED, shown, theme, configSource, clock, loader,
                 page>>

\* FALLBACK_URL answers with a success status and a JSON body
FallbackOk ==
  /\ pc = "fallback"
  /\ \E remote \in BootBodies : Answered(remote)

\* FALLBACK_URL fails too: remote stays null, the loader returns, the boot
\* script renders
FallbackFail ==
  /\ pc = "fallback"
  /\ pc' = "ready"
  /\ DoRender(store, query)
  /\ UNCHANGED <<store, theme, configSource, boot, page>>

NextBoot ==
  \/ LoaderDefined
  \/ WaitSleep
  \/ WaitTimeout
  \/ CallLoader
  \/ Tick
  \/ PrimaryOk
  \/ PrimaryFail
  \/ FallbackOk
  \/ FallbackFail

SpecBoot == InitBoot /\ [][NextBoot]_vars

(***************************************************************************)
(* Direct calls of fuzzyTokenMatch                                         *)
(***************************************************************************)
\* query tokens
FuzzyTokens ==
  { <<"1", "6">>,
    <<"1", "7">>,
    <<"2", "0">>,
    <<"1", "5">>,
    <<"5">>,
    <<"p", "r", "o">>,
    <<"p", "r", "x">>,
    <<"p", "x", "x">>,
    <<"i", "p", "h", "o", "n", "e">>,
    <<"i", "p", "h", "n", "o", "e">>,
    <<"i", "p", "h", "x", "y", "z">>,
    <<"g", "l", "x", "y">>,
    <<"g", "a", "l", "a", "x", "i">>,
    <<"2", "5", "6">> }

\* token lists of a search blob
FuzzyHays ==
  { <<<<"1", "5">>>>,
    <<<<"i", "p", "h", "o", "n", "e">>, <<"1", "5">>, <<"p", "r", "o">>>>,
    <<<<"g", "a", "l", "a", "x", "y">>>>,
    <<<<"p", "r", "o">>, <<"m", "a", "x">>>>,
    <<>>,
    <<<<"i", "p", "h", "o">>>>,
    <<<<"i", "p", "h", "o", "n", "e">>>>,
    <<<<"g", "a", "l", "a", "x", "y">>, <<"s", "2", "3">>, <<"5", "g">>>>,
    <<<<"2", "5", "6", "g", "b">>>>,
    <<<<"i">>>> }

InitFuzzy ==
  /\ store = NoItem
  /\ pc = "fetching"
  /\ editor = EmptyEditor
  /\ overlay = FALSE
  /\ body = FALSE
  /\ query = <<>>
  /\ activeSheet = SheetOrder[1]
  /\ PREPARED = null
  /\ shown = [sh \in Sheets |-> <<>>]
  /\ edits = 0
  /\ arg \in [token : FuzzyTokens, hayTokens : FuzzyHays]
  /\ res = NotCalled
  /\ theme = loadTheme(NoItem)
  /\ configSource = undefined
  /\ clock = 0
  /\ requests = <<>>
  /\ loader = FALSE
  /\ pending = NoChecks
  /\ submitted = FALSE

CallFuzzyTokenMatch ==
  /\ res = NotCalled
  /\ res' = <<fuzzyTokenMatch(arg.token, arg.hayTokens)>>
  /\ UNCHANGED <<store, pc, editor, overlay, body, query, activeSheet,
                 PREPARED, shown, edits, arg, theme, configSource, boot, pin>>

NextFuzzy == CallFuzzyTokenMatch

SpecFuzzy == InitFuzzy /\ [][NextFuzzy]_vars

(***************************************************************************)
(* The filter of render for one row                                        *)
(***************************************************************************)
\* what a user types into #search: 15 Pro; iphone 16; galxy s23; IPHON; 20; pro max; samsung; tab 11; vzw; vz; verizon; wifi; wi-fi; -; 256gb 15
FilterQueries ==
  { <<"1","5"," ","P","r","o">>,
    <<"i","p","h","o","n","e"," ","1","6">>,
    <<"g","a","l","x","y"," ","s","2","3">>,
    <<"I","P","H","O","N">>,
    <<"2","0">>,
    <<"p","r","o"," ","m","a","x">>,
    <<"s","a","m","s","u","n","g">>,
    <<"t","a","b"," ","1","1">>,
    <<"v","z","w">>,
    <<"v","z">>,
    <<"v","e","r","i","z","o","n">>,
    <<"w","i","f","i">>,
    <<"w","i","-","f","i">>,
    <<"-">>,
    <<"2","5","6","g","b"," ","1","5">> }

\* catalog rows: iPhone 15 Pro 256GB; iPhone 14 Pro 256GB; Galaxy S23 5G Verizon; iPad 11" Wi-Fi; Galaxy Tab
FilterItems ==
  { [name |-> <<"i","P","h","o","n","e"," ","1","5"," ","P","r","o"," ","2","5","6","G","B">>,
     sheet |-> "Phones"],
    [name |-> <<"i","P","h","o","n","e"," ","1","4"," ","P","r","o"," ","2","5","6","G","B">>,
     sheet |-> "Phones"],
    [name |-> <<"G","a","l","a","x","y"," ","S","2","3"," ","5","G"," ","V","e","r","i","z","o","n">>,
     sheet |-> "Phones"],
    [name |-> <<"i","P","a","d"," ","1","1","\""," ","W","i","-","F","i">>,
     sheet |-> "Tablets"],
    [name |-> <<"G","a","l","a","x","y"," ","T","a","b">>,
     sheet |-> "Tablets"] }

InitFilter ==
  /\ store = NoItem
  /\ pc = "fetching"
  /\ editor = EmptyEditor
  /\ overlay = FALSE
  /\ body = FALSE
  /\ query = <<>>
  /\ activeSheet = SheetOrder[1]
  /\ PREPARED = null
  /\ shown = [sh \in Sheets |-> <<>>]
  /\ edits = 0
  /\ arg \in [q : FilterQueries, item : FilterItems]
  /\ res = NotCalled
  /\ theme = loadTheme(NoItem)
  /\ configSource = undefined
  /\ clock = 0
  /\ requests = <<>>
  /\ loader = FALSE
  /\ pending = NoChecks
  /\ submitted = FALSE

\* the row of prepareIndex for a catalog item
preparedRow(item) ==
  [search |-> buildSearchBlob(item.name, SheetText[item.sheet])]

\* the input listener of #search for one row: render keeps the row when
\* matchesQuery(r, q) holds.  performSearch of the second script takes no
\* part: it is wired to #searchInput, an id no element of the page has, and
\* it walks .device-row elements, a class render never creates
RenderRow ==
  /\ res = NotCalled
  /\ res' = <<matchesQuery(preparedRow(arg.item), arg.q)>>
  /\ UNCHANGED <<store, pc, editor, overlay, body, query, activeSheet,
                 PREPARED, shown, edits, arg, theme, configSource, boot, pin>>

NextFilter == RenderRow

SpecFilter == InitFilter /\ [][NextFilter]_vars

(***************************************************************************)
(* Direct calls of rankScore                                               *)
(***************************************************************************)
\* queries: 15 pro 256; 15 Pro; iphone 16; 20; galxy s23; pro max 512; tab 11; s23 5g; 99 13; iphon; 256gb; wi-fi 11 inch
RankQueries ==
  { <<"1","5"," ","p","r","o"," ","2","5","6">>,
    <<"1","5"," ","P","r","o">>,
    <<"i","p","h","o","n","e"," ","1","6">>,
    <<"2","0">>,
    <<"g","a","l","x","y"," ","s","2","3">>,
    <<"p","r","o"," ","m","a","x"," ","5","1","2">>,
    <<"t","a","b"," ","1","1">>,
    <<"s","2","3"," ","5","g">>,
    <<"9","9"," ","1","3">>,
    <<"i","p","h","o","n">>,
    <<"2","5","6","g","b">>,
    <<"w","i","-","f","i"," ","1","1"," ","i","n","c","h">> }

InitRank ==
  /\ store = NoItem
  /\ pc = "fetching"
  /\ editor = EmptyEditor
  /\ overlay = FALSE
  /\ body = FALSE
  /\ query = <<>>
  /\ activeSheet = SheetOrder[1]
  /\ PREPARED = null
  /\ shown = [sh \in Sheets |-> <<>>]
  /\ edits = 0
  /\ arg \in [q : RankQueries, item : FilterItems]
  /\ res = NotCalled
  /\ theme = loadTheme(NoItem)
  /\ configSource = undefined
  /\ clock = 0
  /\ requests = <<>>
  /\ loader = FALSE
  /\ pending = NoChecks
  /\ submitted = FALSE

\* rankScore(r, q) for the prepared row of a catalog item, fixed-point
CallRankScore ==
  /\ res = NotCalled
  /\ res' = <<rankScore(preparedRow(arg.item), arg.q)>>
  /\ UNCHANGED <<store, pc, editor, overlay, body, query, activeSheet,
                 PREPARED, shown, edits, arg, theme, configSource, boot, pin>>

NextRank == CallRankScore

SpecRank == InitRank /\ [][NextRank]_vars

(***************************************************************************)
(* Direct calls of normText                                                *)
(***************************************************************************)
\* the longest of the short texts
MaxNormLen == 3

\* characters of the short texts: a digit of 2-6, the letter g, a symbol
\* normText strips, a blank
NormChars == {"5", "g", "+", " "}

\* texts: every short text over NormChars, and three names
NormInputs ==
  UNION { [1..n -> NormChars] : n \in 1..MaxNormLen }
  \cup { <<"i","P","a","d"," ","1","1","\""," ","W","i","-","F","i">>,
         <<"G","a","l","a","x","y"," ","S","2","3"," ","5","-","G">>,
         <<"i","P","h","o","n","e"," ","1","5"," ","P","r","o"," ","2","5","6","G","B">> }

InitNorm ==
  /\ store = NoItem
  /\ pc = "fetching"
  /\ editor = EmptyEditor
  /\ overlay = FALSE
  /\ body = FALSE
  /\ query = <<>>
  /\ activeSheet = SheetOrder[1]
  /\ PREPARED = null
  /\ shown = [sh \in Sheets |-> <<>>]
  /\ edits = 0
  /\ arg \in NormInputs
  /\ res = NotCalled
  /\ theme = loadTheme(NoItem)
  /\ configSource = undefined
  /\ clock = 0
  /\ requests = <<>>
  /\ loader = FALSE
  /\ pending = NoChecks
  /\ submitted = FALSE

CallNormText ==
  /\ res = NotCalled
  /\ res' = <<normText(arg)>>
  /\ UNCHANGED <<store, pc, editor, overlay, body, query, activeSheet,
                 PREPARED, shown, edits, arg, theme, configSource, boot, pin>>

NextNorm == CallNormText

SpecNorm == InitNorm /\ [][NextNorm]_vars

(***************************************************************************)
(* Loading a stored item and pricing under it                              *)
(***************************************************************************)
\* a document with one field
Field(k, v) == Doc([f \in {k} |-> v])

\* contents the configuration key may hold when the page loads
StoredItems ==
  { NoItem, Text(""), Text("{oops"),
    \* wrong top-level shapes
    Num(5), Str("abc"), Arr(<<>>), EmptyObj,
    \* fields of the wrong type
    Field("defaults", Str("abc")), Field("defaults", Num(0)),
    Field("perSheet", Str("abc")), Field("perSheet", Arr(<<>>)),
    Field("perSheet", Obj([sh \in {"Phones"} |-> Num(5)])),
    Field("buckets", Str("abc")), Field("buckets", EmptyObj),
    Field("buckets", Num(7)),
    \* malformed rule entries
    Field("defaults", Obj([l \in {"1-100"} |-> Str("abc")])),
    Field("defaults", Obj([l \in {"470+"} |-> Arr(<<>>)])),
    \* malformed bucket entries
    Field("buckets", Arr(<<Num(5)>>)),
    Field("buckets", Arr(<<Str("1-100")>>)),
    Field("buckets", Arr(<<EmptyObj>>)),
    Field("buckets", Arr(<<Arr(<<>>)>>)),
    Field("buckets", Arr(<<null>>)),
    Field("buckets", Arr(<<Arr(<<Str("1-100"), Num(1), Num(100)>>), null>>)) }

InitLoad ==
  /\ store \in StoredItems
  /\ pc = "fetching"
  /\ editor = EmptyEditor
  /\ overlay = FALSE
  /\ body = FALSE
  /\ query = <<>>
  /\ activeSheet \in Sheets
  /\ PREPARED = null
  /\ shown = [sh \in Sheets |-> <<>>]
  /\ edits = 0
  /\ arg \in Bases
  /\ res = NotCalled
  /\ theme = loadTheme(NoItem)
  /\ configSource = undefined
  /\ clock = 0
  /\ requests = <<>>
  /\ loader = FALSE
  /\ pending = NoChecks
  /\ submitted = FALSE

\* finalPriceFor(activeSheet, arg) as render calls it for one row: the price,
\* or the exception that leaves the call
CallFinalPriceFor ==
  /\ res = NotCalled
  /\ res' = IF activeBucketsThrows(store) THEN TypeError
            ELSE <<finalPriceFor(store, activeSheet, arg)>>
  /\ UNCHANGED <<store, pc, editor, overlay, body, query, activeSheet,
                 PREPARED, shown, edits, arg, theme, configSource, boot, pin>>

NextLoad == CallFinalPriceFor

SpecLoad == InitLoad /\ [][NextLoad]_vars

(***************************************************************************)
(* Properties                                                              *)
(***************************************************************************)
\* bucket labels the properties are evaluated at
ProbeLabels == DefaultLabels \cup {"A", "B", "X", "Bucket"}

\* a rule field with null counted as 0
NullAsZero(v) == IF v.ty = "number" THEN v.n ELSE 0

\* the rule finalPriceFor resolves for bucket i of bucks in collection sh
ruleFor(bucks, i, sh) == resolveRule(store, bucks[i].label, sh)

----------------------------------------------------------------------------
\* C1: for every base price > 0, every collection and every configuration
\* the store can hold, the displayed price is never negative
C1_PriceNeverNegative ==
  \A sh \in Sheets, base \in Bases : finalPriceFor(store, sh, base) >= 0

\* C1 witness: a stored rule whose discount exceeds the base (percentage over
\* 100 or flat amount over the base) applies, and the price shown is 0
C1_Witness ==
  LET bucks == activeBuckets(store)
  IN \E base \in Bases :
       LET i == firstBucket(bucks, base, 1)
       IN /\ i # 0
          /\ \E sh \in Sheets :
               /\ \/ NullAsZero(ruleFor(bucks, i, sh).pct) > 100
                  \/ NullAsZero(ruleFor(bucks, i, sh).flat) > base
               /\ finalPriceFor(store, sh, base) = 0

----------------------------------------------------------------------------
\* the multiple of 10 nearest to x, the upper one when x is halfway
NearestTen(x) ==
  CHOOSE r \in {Fix(10) * k : k \in 0..(MaxPrice \div 10 + 1)} :
    r - Fix(5) <= x /\ x < r + Fix(5)

\* the rounding rule as documented
RoundingRule(x) ==
  LET r == NearestTen(x)
  IN IF r > Fix(340) /\ r % Fix(100) = Fix(10) THEN r - Fix(10)
     ELSE IF r > Fix(340) /\ r % Fix(100) = Fix(90) THEN r + Fix(10)
     ELSE r

\* C2: roundPrice(x) is x rounded to the nearest multiple of 10 (half up),
\* then moved off a 10 or 90 ending to the 00 next to it when the rounded
\* value is above 340; at or below 340 there is no adjustment; 409 -> 400,
\* 486 -> 500, 344 -> 340, 346 -> 350
C2_RoundPriceRule ==
  res # NotCalled =>
    /\ res[1] = RoundingRule(arg)
    /\ arg <= Fix(340) => res[1] = NearestTen(arg)
    /\ arg = Fix(409) => res[1] = Fix(400)
    /\ arg = Fix(486) => res[1] = Fix(500)
    /\ arg = Fix(344) => res[1] = Fix(340)
    /\ arg = Fix(346) => res[1] = Fix(350)

\* C2 witness: a call whose rounded value 410 is above 340 and was adjusted
C2_Witness == arg = Fix(409) /\ res = <<Fix(400)>>

----------------------------------------------------------------------------
\* C3: roundPrice is idempotent: rounding a result again returns it
C3_RoundPriceIdempotent ==
  res # NotCalled => roundPrice(res[1]) = res[1]

\* C3 witness: a call that rounded up to 490 and was adjusted to 500
C3_Witness == arg = Fix(486) /\ res = <<Fix(500)>>

----------------------------------------------------------------------------
\* C4: when the base price falls in a bucket, the displayed price is the
\* base less the percentage, then less the flat amount, clamped at 0, then
\* rounded; a null field counts as 0; base 1000 with {pct 20, flat 50} is 750
C4_DiscountThenRound ==
  LET bucks == activeBuckets(store)
  IN \A base \in Bases :
       LET i == firstBucket(bucks, base, 1)
       IN i # 0 =>
            \A sh \in Sheets :
              LET rule == ruleFor(bucks, i, sh)
                  pct == NullAsZero(rule.pct)
                  flat == NullAsZero(rule.flat)
                  afterPct == Fix(base) - base * pct
                  afterFlat == afterPct - Fix(flat)
                  clamped == IF afterFlat > 0 THEN afterFlat ELSE 0
                  price == finalPriceFor(store, sh, base)
              IN /\ price = roundPrice(clamped)
                 /\ (base = 1000 /\ pct = 20 /\ flat = 50) => price = Fix(750)

\* C4 witness: base 1000 falls in a bucket whose rule is {pct 20, flat 50}
C4_Witness ==
  LET bucks == activeBuckets(store)
      i == firstBucket(bucks, 1000, 1)
  IN /\ i # 0
     /\ \E sh \in Sheets :
          /\ ruleFor(bucks, i, sh) = [pct |-> Num(20), flat |-> Num(50)]
          /\ finalPriceFor(store, sh, 1000) = Fix(750)

----------------------------------------------------------------------------
\* the inclusive range of bucket b contains base
InRange(b, base) ==
  /\ b.lo.ty = "number" /\ b.lo.n <= base
  /\ b.hi.ty = "Infinity" \/ (b.hi.ty = "number" /\ base <= b.hi.n)

\* the buckets of bucks, by index, whose range contains base
Holding(bucks, base) == {i \in 1..Len(bucks) : InRange(bucks[i], base)}

\* the price the rule of bucket i of bucks gives base in collection sh
PriceUnder(bucks, i, sh, base) ==
  LET rule == ruleFor(bucks, i, sh)
  IN roundPrice(applyDiscount(base, NullAsZero(rule.pct), NullAsZero(rule.flat)))

\* the buckets [(A,1,100),(B,101,220)]
ExampleBuckets ==
  << [label |-> "A", lo |-> Num(1), hi |-> Num(100)],
     [label |-> "B", lo |-> Num(101), hi |-> Num(220)] >>

\* C5: the first bucket in listed order whose inclusive range contains the
\* base price is used, also when later buckets contain it; when no bucket
\* contains it the displayed price is roundPrice(base); with buckets
\* [(A,1,100),(B,101,220)], 50 selects A, 150 selects B, 500 selects none
C5_FirstBucketWins ==
  LET bucks == activeBuckets(store)
  IN /\ \A base \in Bases :
          LET holding == Holding(bucks, base)
              sel == firstBucket(bucks, base, 1)
          IN IF holding = {}
             THEN /\ sel = 0
                  /\ \A sh \in Sheets :
                       finalPriceFor(store, sh, base) = roundPrice(Fix(base))
             ELSE /\ sel \in holding
                  /\ \A j \in holding : sel <= j
                  /\ \A sh \in Sheets :
                       finalPriceFor(store, sh, base) =
                         PriceUnder(bucks, sel, sh, base)
     /\ bucks = ExampleBuckets =>
          /\ firstBucket(bucks, 50, 1) = 1
          /\ firstBucket(bucks, 150, 1) = 2
          /\ firstBucket(bucks, 500, 1) = 0

\* C5 witness: two buckets contain the same base and their rules give
\* different prices
C5_Witness ==
  LET bucks == activeBuckets(store)
  IN \E base \in Bases :
       \E i \in Holding(bucks, base), j \in Holding(bucks, base) :
         /\ i < j
         /\ \E sh \in Sheets :
              PriceUnder(bucks, i, sh, base) # PriceUnder(bucks, j, sh, base)

----------------------------------------------------------------------------
\* the per-sheet and the default value of a rule, as {pct, flat}
PageRule(label, sh) == asRuleObj(SheetRuleSrc(getEngineConfig(store), sh, label))
DefRule(label) == asRuleObj(DefaultRuleSrc(getEngineConfig(store), label))

\* C6: pct and flat are resolved independently: each takes the per-sheet
\* value when that is non-null (0 counts as set), otherwise the default
\* value; only when all four are null the result is {legacy percent or 0,
\* null}; per-sheet {10, null} over default {30, 5} resolves to {10, 5}
C6_FieldsResolvedIndependently ==
  \A label \in ProbeLabels, sh \in Sheets :
    LET pg == PageRule(label, sh)
        df == DefRule(label)
        r == resolveRule(store, label, sh)
    IN /\ IF pg.pct = null /\ pg.flat = null /\ df.pct = null /\ df.flat = null
          THEN r = [pct |-> IF label \in DOMAIN DEFAULT_RULES.o
                            THEN DEFAULT_RULES.o[label] ELSE Num(0),
                    flat |-> null]
          ELSE /\ r.pct = IF pg.pct # null THEN pg.pct ELSE df.pct
               /\ r.flat = IF pg.flat # null THEN pg.flat ELSE df.flat
       /\ (/\ pg = [pct |-> Num(10), flat |-> null]
           /\ df = [pct |-> Num(30), flat |-> Num(5)]) =>
            r = [pct |-> Num(10), flat |-> Num(5)]

\* C6 witness: a per-sheet rule sets only pct, the default sets both, and
\* the resolved rule takes pct from the first and flat from the second
C6_Witness ==
  /\ PageRule("A", "Phones") = [pct |-> Num(10), flat |-> null]
  /\ DefRule("A") = [pct |-> Num(30), flat |-> Num(5)]
  /\ resolveRule(store, "A", "Phones") = [pct |-> Num(10), flat |-> Num(5)]

----------------------------------------------------------------------------
----------------------------------------------------------------------------
\* a high bound that is left out, null or the empty string
MissingHigh(arr) ==
  Len(arr.a) < 3 \/ arr.a[3] = null \/ arr.a[3] = Str("")

\* C8 as stated: a bucket whose high bound is left out, null or "" in the
\* stored document contains every base price at or above its low bound
C8_MissingHighIsUnbounded ==
  (store.ty = "object" /\ Get(store, "buckets").ty = "array") =>
    LET stored == Get(store, "buckets").a
        bucks == activeBuckets(store)
    IN \A i \in 1..Len(stored) :
         (stored[i].ty = "array" /\ MissingHigh(stored[i])) =>
           \A base \in Bases :
             (bucks[i].lo.ty = "number" /\ bucks[i].lo.n <= base) =>
               firstBucket(<<bucks[i]>>, base, 1) = 1

----------------------------------------------------------------------------
\* the percentage of the compiled-in table for a base price
DefaultPct(base) ==
  CASE base >= 1 /\ base <= 100 -> 30
    [] base >= 101 /\ base <= 220 -> 20
    [] base >= 221 /\ base <= 300 -> 15
    [] base >= 301 /\ base <= 469 -> 13
    [] base >= 470 -> 10

\* the price under the compiled-in buckets and percent table
DefaultPrice(base) == roundPrice(Fix(base) - base * DefaultPct(base))

\* C9 as stated: after a reset every displayed price is the one computed with
\* the compiled-in buckets (the top one unbounded) and percent table
C9_ResetRestoresDefaults ==
  [][Reset =>
       /\ \A sh \in Sheets, base \in Bases :
            finalPriceFor(store', sh, base) = DefaultPrice(base)
       /\ \A sh \in Sheets : \A k \in 1..Len(shown'[sh]) :
            shown'[sh][k].price = DefaultPrice(DATASETS[sh][k].price)]_vars

----------------------------------------------------------------------------
\* C10: a render triggered by a query change or a collection change only
\* reads the configuration: a step that changes the query or the selected
\* collection leaves the stored item as it was
C10_RenderOnlyReads ==
  [][(query' # query \/ activeSheet' # activeSheet) => store' = store]_vars

\* C10 witness: a configuration is stored, the user has typed a query and
\* changed the collection, and the render has put matches on screen
C10_Witness ==
  /\ store # NoItem
  /\ query # <<>>
  /\ activeSheet # SheetOrder[1]
  /\ PREPARED # null
  /\ \E sh \in Sheets : shown[sh] # <<>>


(***************************************************************************)
(* C11                                                                     *)
(***************************************************************************)
\* C11, as stated: the stored configuration changes only in a step of the
\* save handler or of the reset handler; boot, the remote configuration
\* fetch, a query change, a collection change, a theme change and a render
\* leave it as it was
C11_OnlySaveOrReset == [][store' # store => (Save \/ Reset)]_vars

\* C11, amended: the stored configuration changes only in a step of the save
\* handler, of the reset handler, or of a remote configuration fetch that
\* got a document; a failed fetch, a query change, a collection change, a
\* theme change, opening and closing the settings and every render leave it
\* as it was
C11_OnlySaveResetOrFetch ==
  [][store' # store => (Save \/ Reset \/ FetchDone)]_vars

\* the fetch has stored a document, and after it the user has changed the
\* query, the collection and the theme
C11_Witness ==
  /\ configSource # undefined
  /\ store # NoItem
  /\ query # <<>>
  /\ activeSheet # SheetOrder[1]
  /\ theme # loadTheme(NoItem)

(***************************************************************************)
(* C12                                                                     *)
(***************************************************************************)
\* C12: whatever the configuration key holds, loading the configuration and
\* computing a displayed price never raises
C12_PricingNeverRaises == Len(res) # Len(TypeError)

(***************************************************************************)
(* C13                                                                     *)
(***************************************************************************)
\* the remote document carries field k as an object
Carries(remote, k) ==
  Truthy(Get(remote, k)) /\ IsObjectLike(Get(remote, k))

\* the buckets a remote list stands for: label, low bound and high bound of
\* each entry, an unset high bound meaning unbounded
RemoteBuckets(rb) ==
  [i \in 1..Len(rb.a) |->
     LET hi == At(rb.a[i], 2)
     IN [label |-> String(At(rb.a[i], 0)),
         lo |-> Number(At(rb.a[i], 1)),
         hi |-> IF IsNullish(hi) \/ hi = Str("") THEN Infinity
                ELSE Number(hi)]]

\* C13: a fetch that got a document leaves, for each of defaults, perSheet
\* and buckets, the remote value in effect when the document carries the
\* field, and the value that was in effect before the fetch when it does not
C13_RemotePresentElseKept ==
  [][FetchDone =>
       LET remote == configSource'
           before == getEngineConfig(store)
           after == getEngineConfig(store')
       IN /\ \A k \in {"defaults", "perSheet"} :
               Get(after, k) = IF Carries(remote, k) THEN Get(remote, k)
                               ELSE Get(before, k)
          /\ activeBuckets(store') =
               IF Get(remote, "buckets").ty = "array"
               THEN RemoteBuckets(Get(remote, "buckets"))
               ELSE activeBuckets(store)]_vars

(***************************************************************************)
(* C14                                                                     *)
(***************************************************************************)
\* C14: the loader requests the primary URL first and the fallback URL only
\* in the step in which the primary request failed, never after the primary
\* request succeeded; when the fallback fails too the stored configuration
\* is unchanged and the first render takes place under it
C14_PrimaryThenFallback ==
  [][/\ requests' \in {<<>>, <<PRIMARY_URL>>, <<PRIMARY_URL, FALLBACK_URL>>}
     /\ (requests' # requests /\ Len(requests') = 2) => PrimaryFail
     /\ PrimaryOk => (requests' = <<PRIMARY_URL>> /\ pc' = "ready")
     /\ pc = "ready" => requests' = requests
     /\ FallbackFail =>
          /\ store' = store
          /\ pc' = "ready"
          /\ PREPARED' # null
          /\ shown' = render(store, PREPARED', query)]_vars

\* both requests were made and failed, and the page has rendered under the
\* configuration stored before the page load
C14_Witness ==
  /\ requests = <<PRIMARY_URL, FALLBACK_URL>>
  /\ pc = "ready"
  /\ configSource = undefined
  /\ store = setEngineConfig(DefaultConfig)
  /\ PREPARED # null

(***************************************************************************)
(* C15                                                                     *)
(***************************************************************************)
\* C15: the wait for the remote configuration is bounded: once the timeout
\* and one more pause have passed since the boot script started, the first
\* render has taken place, whether or not the fetch has completed
C15_FirstRenderWithinBound ==
  clock > WaitTimeoutMs + PollMs => PREPARED # null

(***************************************************************************)
(* C16                                                                     *)
(***************************************************************************)
\* the score a row is ranked by under query q
RankOf(r, q) == IF q # <<>> THEN rankScore(r, q) ELSE 0

\* list is what filtering, scoring, pricing and sorting the rows of
\* collection sh gives under query q and stored item raw: it holds each
\* matching row once and no other, each with its device and its price under
\* raw, by descending score and, at equal score, in catalog order
IsListing(list, rows, sh, raw, q) ==
  /\ \A k \in 1..Len(list) : list[k].idx + 1 \in 1..Len(rows)
  /\ \A k, l \in 1..Len(list) : list[k].idx = list[l].idx => k = l
  /\ \A i \in 1..Len(rows) :
       matchesQuery(rows[i], q) <=> \E k \in 1..Len(list) : list[k].idx = i - 1
  /\ \A k \in 1..Len(list) :
       LET r == rows[list[k].idx + 1]
       IN /\ list[k].dev = r.device
          /\ list[k].price = finalPriceFor(raw, sh, r.price)
          /\ list[k].sc = RankOf(r, q)
  /\ \A k, l \in 1..Len(list) :
       k < l => \/ list[k].sc > list[l].sc
                \/ list[k].sc = list[l].sc /\ list[k].idx < list[l].idx

\* C16: after each query change, collection change, save and reset, the list
\* on screen and every price in it are what filtering, scoring, pricing and
\* sorting give under the query now in the search box and the configuration
\* now in the store
C16_ScreenFollowsQueryAndConfig ==
  [][(QueryChange \/ SheetChange \/ Save \/ Reset) =>
       /\ PREPARED' # null
       /\ \A sh \in Sheets :
            IsListing(shown'[sh], PREPARED'.o[sh], sh, store', query')]_vars

\* under a typed query and a configuration written by a save or a reset,
\* some rows of the selected collection are on screen and some are not
C16_Witness ==
  /\ query # <<>>
  /\ store # NoItem
  /\ configSource = undefined
  /\ shown[activeSheet] # <<>>
  /\ Len(shown[activeSheet]) < Len(DATASETS[activeSheet])

(***************************************************************************)
(* C17                                                                     *)
(***************************************************************************)
\* the edit distance of the suffixes of a from i and of b from j: the least
\* number of single-character insertions, deletions and substitutions
RECURSIVE EditDistance(_, _, _, _)
EditDistance(a, b, i, j) ==
  IF i > Len(a) THEN Len(b) - j + 1
  ELSE IF j > Len(b) THEN Len(a) - i + 1
  ELSE IF a[i] = b[j] THEN EditDistance(a, b, i + 1, j + 1)
  ELSE 1 + Min2(EditDistance(a, b, i + 1, j + 1),
                Min2(EditDistance(a, b, i + 1, j), EditDistance(a, b, i, j + 1)))

\* t occurs in h as a run of consecutive characters
IsSubstring(t, h) ==
  \E d \in 0..(Len(h) - Len(t)) : \A k \in 1..Len(t) : h[d + k] = t[k]

\* C17: for a non-empty token, fuzzyTokenMatch is true exactly when some hay
\* token contains the token, or some hay token whose length differs from
\* the token's by at most 3 is within edit distance 2 of a token of 6 or
\* more characters, within 1 of a shorter one; so "16" and "17" match
\* ["15"] and "20" does not
C17_FuzzyTokenMatchRule ==
  res # NotCalled =>
    LET t == arg.token
        hay == arg.hayTokens
        bound == IF Len(t) >= 6 THEN 2 ELSE 1
    IN /\ res[1] <=>
            \/ \E k \in 1..Len(hay) : IsSubstring(t, hay[k])
            \/ \E k \in 1..Len(hay) :
                 /\ Len(hay[k]) - Len(t) \in -3..3
                 /\ EditDistance(t, hay[k], 1, 1) <= bound
       /\ (hay = << <<"1", "5">> >> /\ t \in {<<"1", "6">>, <<"1", "7">>})
            => res[1]
       /\ (hay = << <<"1", "5">> >> /\ t = <<"2", "0">>) => ~res[1]

\* token 16 was matched against ["15"], which does not contain it
C17_Witness ==
  /\ arg.token = <<"1", "6">>
  /\ arg.hayTokens = << <<"1", "5">> >>
  /\ res = <<TRUE>>

(***************************************************************************)
(* C18                                                                     *)
(***************************************************************************)
\* the whitespace-separated tokens of s: the maximal runs without a blank
Words(s) ==
  { SubSeq(s, p[1], p[2]) :
      p \in { p \in (1..Len(s)) \X (1..Len(s)) :
                /\ p[1] <= p[2]
                /\ \A k \in p[1]..p[2] : s[k] # " "
                /\ p[1] = 1 \/ s[p[1] - 1] = " "
                /\ p[2] = Len(s) \/ s[p[2] + 1] = " " } }

\* token t matches some token of the set hay: one that contains it, or one
\* of a length within 3 of its own and within the edit bound
WordMatches(t, hay) ==
  \E h \in hay :
    \/ IsSubstring(t, h)
    \/ /\ Len(h) - Len(t) \in -3..3
       /\ EditDistance(t, h, 1, 1) <= (IF Len(t) >= 6 THEN 2 ELSE 1)

\* every token of the set tokens matches some token of the set hay
EveryWordMatches(tokens, hay) == \A t \in tokens : WordMatches(t, hay)

\* C18: for a query with at least one token, a row passes the filter of
\* render exactly when every whitespace-separated token of the normalized
\* query matches some token of the row's search blob
C18_FilterIsEveryTokenMatches ==
  res # NotCalled =>
    LET tokens == Words(normText(arg.q))
    IN tokens # {} =>
         (res[1] <=>
            EveryWordMatches(tokens, Words(preparedRow(arg.item).search)))

\* the misspelt query galxy s23 kept a Galaxy S23 row
C18_Witness ==
  /\ arg.q = <<"g","a","l","x","y"," ","s","2","3">>
  /\ arg.item.sheet = "Phones"
  /\ res = <<TRUE>>

(***************************************************************************)
(* C19                                                                     *)
(***************************************************************************)
\* the abbreviation groups
AbbreviationGroups ==
  { { <<"v","e","r","i","z","o","n">>, <<"v","z">>, <<"v","z","w">> },
    { <<"a","t","t">>, <<"a","t","&","t">>, <<"a","t","n","t">> },
    { <<"t","m","o","b","i","l","e">>, <<"t","-","m","o","b","i","l","e">>, <<"t"," ","m","o","b","i","l","e">> },
    { <<"w","i","f","i">>, <<"w","i","-","f","i">>, <<"w","i"," ","f","i">> } }

\* C19: the filter applied on a keystroke tries every abbreviation variant
\* of the typed query: when the query is a member of a group and the item's
\* name contains a member of the same group, the item is shown; so vzw
\* shows an item whose name contains verizon
C19_AbbreviationVariantsTried ==
  res # NotCalled =>
    \A G \in AbbreviationGroups :
      (/\ toLowerCase(arg.q) \in G
       /\ \E g \in G : IsSubstring(g, toLowerCase(arg.item.name)))
      => res[1]

(***************************************************************************)
(* C20                                                                     *)
(***************************************************************************)
\* the positions of s at which a token starts
TokenStarts(s) ==
  {i \in 1..Len(s) : s[i] # " " /\ (i = 1 \/ s[i - 1] = " ")}

\* the position at which the token that starts at i ends
TokenEnd(s, i) ==
  CHOOSE j \in i..Len(s) :
    /\ \A k \in i..j : s[k] # " "
    /\ j = Len(s) \/ s[j + 1] = " "

\* the best signal for token t over the set hay of tokens
Signal(t, hay) ==
  IF t \in hay THEN 10
  ELSE IF \E h \in hay : IsSubstring(t, h) THEN 6
  ELSE IF WordMatches(t, hay) THEN 3
  ELSE 0

\* the sum of the signals of the tokens of nq that start at the positions ps
RECURSIVE SumSignals(_, _, _)
SumSignals(nq, ps, hay) ==
  IF ps = {} THEN 0
  ELSE LET i == CHOOSE p \in ps : TRUE
       IN Signal(SubSeq(nq, i, TokenEnd(nq, i)), hay)
          + SumSignals(nq, ps \ {i}, hay)

\* the values of the standalone numeric tokens of s, fixed-point
NumValues(s) == {parseFloat(w) : w \in {v \in Words(s) : IsNumToken(v)}}

\* the numeric term for the sets of values qn and hn
NumericTerm(qn, hn) ==
  IF qn = {} \/ hn = {} THEN 0
  ELSE LET ds == {Abs(x - y) : x \in qn, y \in hn}
           d == CHOOSE e \in ds : \A f \in ds : e <= f
       IN IF d = 0 THEN Fix(25)
          ELSE IF d <= Fix(1) THEN Fix(10)
          ELSE IF d <= Fix(2) THEN Fix(5)
          ELSE -d

\* the score the ranking rule gives blob hay under the normalized query nq,
\* fixed-point
RuleScore(hay, nq) ==
  LET qs == TokenStarts(nq)
      phrases == {i \in qs : \E j \in qs :
                    /\ j = TokenEnd(nq, i) + 2
                    /\ IsSubstring(SubSeq(nq, i, TokenEnd(nq, j)), hay)}
      extra == Cardinality(TokenStarts(hay)) - Cardinality(qs)
  IN Fix(IF IsSubstring(nq, hay) THEN 40 ELSE 0)
     + Fix(12) * Cardinality(phrases)
     + Fix(SumSignals(nq, qs, Words(hay)))
     + NumericTerm(NumValues(nq), NumValues(hay))
     - (IF extra > 0 THEN 25 * extra ELSE 0)

\* iPhone 14 Pro 256GB in Phones
Item14 ==
  [name |-> <<"i","P","h","o","n","e"," ","1","4"," ","P","r","o"," ","2","5","6","G","B">>,
   sheet |-> "Phones"]

\* iPhone 15 Pro 256GB in Phones
Item15 ==
  [name |-> <<"i","P","h","o","n","e"," ","1","5"," ","P","r","o"," ","2","5","6","G","B">>,
   sheet |-> "Phones"]

\* C20: for a query that normalizes to a non-empty text, rankScore is 40 for
\* the whole query occurring in the blob, plus 12 for each adjacent pair of
\* query tokens occurring in it, plus for each query token its best signal
\* (10 equal, 6 contained, 3 fuzzy, 0 none), plus the numeric term (25, 10,
\* 5 or minus the least difference), minus 0.25 per blob token in excess of
\* the query's; and for 15 pro 256 the item iPhone 15 Pro 256GB scores
\* strictly higher than iPhone 14 Pro 256GB
C20_RankScoreRule ==
  res # NotCalled =>
    LET nq == normText(arg.q)
    IN nq # <<>> =>
         /\ res[1] = RuleScore(preparedRow(arg.item).search, nq)
         /\ (arg.q = <<"1","5"," ","p","r","o"," ","2","5","6">> /\ arg.item = Item15)
              => res[1] > RuleScore(preparedRow(Item14).search, nq)

\* rankScore was called for 15 pro 256 and iPhone 15 Pro 256GB
C20_Witness ==
  /\ arg.q = <<"1","5"," ","p","r","o"," ","2","5","6">>
  /\ arg.item = Item15
  /\ res = <<11375>>

(***************************************************************************)
(* C21                                                                     *)
(***************************************************************************)
\* C21: every list on screen is in descending order of score, two rows of
\* equal score stand in ascending catalog index, and the lists are the ones
\* a render gives for the catalog, the query in the search box and the
\* stored configuration
C21_OrderedByScoreThenIndex ==
  PREPARED # null =>
    /\ \A sh \in Sheets :
         \A k \in 1..(Len(shown[sh]) - 1) :
           LET x == shown[sh][k]
               y == shown[sh][k + 1]
           IN x.sc > y.sc \/ (x.sc = y.sc /\ x.idx < y.idx)
    /\ shown = render(store, prepareIndex(null), query)

\* under a typed query the selected collection shows three rows or more,
\* two of them with the same score and one with a lower score
C21_Witness ==
  /\ query # <<>>
  /\ \E k, l, m \in 1..Len(shown[activeSheet]) :
       /\ k < l /\ l < m
       /\ shown[activeSheet][k].sc = shown[activeSheet][l].sc
       /\ shown[activeSheet][l].sc > shown[activeSheet][m].sc

(***************************************************************************)
(* C22                                                                     *)
(***************************************************************************)
\* C22: with an empty query every collection's list holds each catalog row
\* once, in catalog order, with score 0 and the price computed for it under
\* the stored configuration
C22_EmptyQueryListsEverything ==
  (PREPARED # null /\ query = <<>>) =>
    \A sh \in Sheets :
      /\ Len(shown[sh]) = Len(DATASETS[sh])
      /\ \A k \in 1..Len(DATASETS[sh]) :
           /\ shown[sh][k].idx = k - 1
           /\ shown[sh][k].dev = DATASETS[sh][k].device
           /\ shown[sh][k].sc = 0
           /\ shown[sh][k].price = finalPriceFor(store, sh, DATASETS[sh][k].price)

\* the search box was cleared again after a search, under a fetched
\* configuration
C22_Witness ==
  /\ PREPARED # null
  /\ query = <<>>
  /\ configSource # undefined
  /\ activeSheet # SheetOrder[1]
  /\ Len(shown[activeSheet]) = Len(DATASETS[activeSheet])

(***************************************************************************)
(* C23                                                                     *)
(***************************************************************************)
\* C23: normText is idempotent: normalizing a normalized text gives the
\* same text, also when stripping a symbol has left a digit 2-6 and the
\* letter g with only a blank between them
C23_NormTextIdempotent ==
  res # NotCalled => normText(res[1]) = res[1]

(***************************************************************************)
(* C24                                                                     *)
(***************************************************************************)
\* a step in which render() runs
Renders ==
  FetchDone \/ FetchFail \/ QueryChange \/ SheetChange \/ Save \/ Reset

\* C24: the search corpus is built by the first render, with one entry per
\* catalog row in catalog order; once built, no step changes it, whether a
\* query change, a collection change, a save or a reset
C24_CorpusBuiltOnce ==
  [][/\ PREPARED # null => PREPARED' = PREPARED
     /\ Renders => PREPARED' # null
     /\ PREPARED' # null =>
          \A sh \in Sheets :
            /\ Len(PREPARED'.o[sh]) = Len(DATASETS[sh])
            /\ \A i \in 1..Len(DATASETS[sh]) :
                 /\ PREPARED'.o[sh][i].device = DATASETS[sh][i].device
                 /\ PREPARED'.o[sh][i].price = DATASETS[sh][i].price]_vars

\* the corpus is there after a search in the second collection under a
\* configuration written by a save or a reset
C24_Witness ==
  /\ PREPARED # null
  /\ query # <<>>
  /\ activeSheet # SheetOrder[1]
  /\ store # NoItem
  /\ configSource = undefined

(***************************************************************************)
(* C25                                                                     *)
(***************************************************************************)
\* the label of the bucket finalPriceFor selects for base under the stored
\* item raw; no label when no bucket holds base
SelectedBucket(raw, base) ==
  LET bucks == activeBuckets(raw)
      i == firstBucket(bucks, base, 1)
  IN IF i = 0 THEN <<>> ELSE <<i, bucks[i].label>>

\* C25: a save with the editor's fields as the unlock filled them leaves the
\* configuration in effect as it was: the resolved rule of every bucket
\* label and collection, and the bucket selected for every price, are the
\* same after the save as before it
C25_SaveUneditedIsNoOp ==
  [][(Save /\ editor = buildEngineUI(store)) =>
       /\ \A label \in ProbeLabels, sh \in Sheets :
            resolveRule(store', label, sh) = resolveRule(store, label, sh)
       /\ \A base \in Bases :
            SelectedBucket(store', base) = SelectedBucket(store, base)]_vars

\* C26: the settings editor body, and with it Save and Reset, is visible only
\* if the right PIN was submitted since the overlay was last opened, whatever
\* the interleaving of openEngine, closeEngine and the completion of a pending
\* PIN check.
C26_BodyOnlyAfterPinSinceOpen == (overlay /\ body) => submitted

====
